---------------------------- MODULE Spec2Model ----------------------------
(***************************************************************************)
(* A state-machine model of the 3D scene interaction engine of             *)
(* src/components/SceneView.tsx: the mesh registry, the grid layout, the   *)
(* scroll / orbit gesture handling, the selection state machine and the    *)
(* per-frame camera step.                                                  *)
(*                                                                         *)
(* Numbers.  World coordinates are integers (world units).  Angles are in  *)
(* milliradians.  tan(30 deg) is the fraction TanNum / TanDen.  Strings    *)
(* are tuples of one-character strings.                                    *)
(***************************************************************************)
EXTENDS Integers, Sequences, FiniteSets, TLC

VARIABLES
    files,            \* props.files: the file names, in list order
    session,          \* the number of runs of the scene effect's cleanup so far:
                      \* the number of the current scene session
    stale,            \* what the callbacks of the torn-down sessions still hold,
                      \* by session: the files, the loads' status, loadedCount
                      \* and the camera vectors of the effect's closure
    animationFrame,   \* animationFrameRef: the id of the last frame requested
    pendingFrames,    \* requestAnimationFrame callbacks not yet run or
                      \* cancelled: [id, session]
    loadStatus,       \* per file index: "pending" | "loaded" | "failed"
    loadedCount,      \* let loadedCount (closure of the scene effect)
    loadedModels,     \* loadedModelsRef: sequence of mesh identities
    boundingSpheres,  \* boundingSpheresRef: sequence of [model, center]
    mesh,             \* the mesh objects, by identity (userData.index)
    visibleRows,      \* visibleRowsRef
    viewport,         \* <<clientWidth, clientHeight>> of the container
    viewKinds,        \* what kind of number updateViewParams and updateZoomTargets
                      \* last computed for the aspect ratio, homeZRef,
                      \* gridYOffsetRef and panShiftRef: "finite", "inf" or "nan"
    gridCols,         \* gridColsRef
    homeZ,            \* homeZRef
    gridYOffset,      \* gridYOffsetRef
    panelSize,        \* panelSizeRef (props.panelSize)
    panShift,         \* panShiftRef: <<x, y>>
    searchTerm,       \* searchTermRef (props.searchTerm)
    isZoomed,         \* isZoomedRef
    zoomedModel,      \* zoomedModelRef: an identity or NoModel
    hostSelected,     \* the host's selectedModel state (props.selectedModel)
    orbit,            \* orbitRef: [theta, phi]
    isMouseDown,      \* isMouseDownRef
    isDragging,       \* isDraggingRef
    dragStart,        \* dragStartRef: <<x, y>>
    touchStart,       \* touchStartRef: <<x, y>>
    scrollOffset,     \* scrollOffsetRef
    targetCamPos,     \* targetCamPos  (closure of the scene effect)
    targetLookAt,     \* targetLookAt
    currentCamPos,    \* currentCamPos
    currentLookAt,    \* currentLookAt
    cameraPos,        \* camera.position
    hoveredModel,     \* hoveredModelRef
    glow,             \* glowOpacityRef, glowScaleRef, sprite visible / position
    frames,           \* number of frames run so far
    outSelect,        \* onModelSelect calls made by the last step, in order
    outHover,         \* onHover calls made by the last step, in order
    outProgress,      \* onProgress calls made by the last step, in order
    lastOp,           \* the kind of the last step: "init", "layout" (a step that
                      \* ends in performLayout), "frame", "release" (of the
                      \* mouse button or a finger), "files" (a change of the
                      \* file list), "stale" (the completion of a load of a
                      \* torn-down session) or "input"
    outThrown,        \* the exceptions the last step threw
    outClick,         \* handleSingleClick calls made by the last step: the
                      \* mode it found and the object its ray hit
    touches,          \* environment: number of fingers on the container
    pressPos,         \* history: pointer position of the last press
    atPress,          \* history: scrollOffset and orbit at the last press that
                      \* was noted (PressMouse, PressTouch)
    selectScroll,     \* history: scrollOffset when the selection in force, or the
                      \* one cleared by the last step that was not a frame, was made
    travel            \* history: how far the pointer went from pressPos during
                      \* the gesture in progress, or the one the last step ended:
                      \* "idle" (no gesture), "none", "near" (<= 5 px) or "far"

vars == <<files, session, stale, animationFrame, pendingFrames, loadStatus, loadedCount, loadedModels, boundingSpheres, mesh,
          visibleRows, viewport, viewKinds, gridCols, homeZ, gridYOffset, panelSize, panShift,
          searchTerm, isZoomed, zoomedModel, hostSelected, orbit, isMouseDown,
          isDragging, dragStart, touchStart, scrollOffset, targetCamPos, targetLookAt,
          currentCamPos, currentLookAt, cameraPos, hoveredModel, glow, frames,
          outSelect, outHover, outProgress, lastOp, outClick, outThrown, touches, pressPos, atPress,
          selectScroll, travel>>

-----------------------------------------------------------------------------
(* Program constants *)

MODEL_SIZE == 350
SPACING == 650
MinHomeZ == 1200
TopOffsetNarrow == 800
TopOffsetWide == 700
ContentMargin == 600
WideWidth == 1200
NarrowWidth == 768
TanNum == 56
TanDen == 97
ZoomCamDist == 1200
DragThreshold == 5
OrbitSensitivity == 5
TouchScrollSensitivity == 4
WheelNum == 8
WheelDen == 10
PiMilli == 3142
PhiMargin == 100
LerpResting == 50
LerpOrbiting == 100
LerpObjects == 50
LerpGlowIdle == 5
LerpGlowActive == 20
GlowOpacityActive == 500
OrbitRadius == 1200
Opaque == 1000
FadingBelow == 990
VisibleAbove == 10

NoModel == -1

Max(a, b) == IF a >= b THEN a ELSE b
Min(a, b) == IF a <= b THEN a ELSE b
Abs(a) == IF a >= 0 THEN a ELSE -a

-----------------------------------------------------------------------------
(* createFuzzyRegex and RegExp.prototype.test *)

Specials == {".", "*", "+", "?", "^", "$", "{", "}", "(", ")", "|", "[", "]", "\\"}

\* case folding of the 'i' flag, on the letters the file names use
Lower(c) ==
    CASE c = "A" -> "a"
      [] c = "B" -> "b"
      [] c = "O" -> "o"
      [] c = "X" -> "x"
      [] OTHER -> c

RECURSIVE EscapeChars(_)
\* str.replace(/[.*+?^${}()|[\]\\]/g, '\\$&')
EscapeChars(str) ==
    IF str = <<>> THEN <<>>
    ELSE (IF Head(str) \in Specials THEN <<"\\", Head(str)>> ELSE <<Head(str)>>)
         \o EscapeChars(Tail(str))

RECURSIVE JoinDotStar(_)
\* escaped.split('').join('.*')
JoinDotStar(chars) ==
    IF Len(chars) <= 1 THEN chars
    ELSE <<Head(chars), ".", "*">> \o JoinDotStar(Tail(chars))

RECURSIVE ParseRegex(_, _)
\* new RegExp(pattern, 'i'): [ok, terms], the pattern text as a sequence of terms
\* [kind: "lit" | "any", ch, star]; ok is FALSE when the constructor throws a
\* SyntaxError.  Covers the syntax that JoinDotStar(EscapeChars(s)) produces
\* over letters, digits and the characters . * ? ( \ .
ParseRegex(pat, p) ==
    IF p > Len(pat) THEN [ok |-> TRUE, terms |-> <<>>]
    ELSE
      LET c == pat[p]
          bad == \/ c \in {"*", "+", "?", "(", ")", "["}
                 \/ c = "\\" /\ p = Len(pat)
          width == IF c = "\\" THEN 2 ELSE 1
          atom == IF c = "\\" THEN [kind |-> "lit", ch |-> pat[p + 1]]
                  ELSE IF c = "." THEN [kind |-> "any", ch |-> "."]
                  ELSE [kind |-> "lit", ch |-> c]
          q == p + width
          star == q <= Len(pat) /\ pat[q] = "*"
          lazy == star /\ q + 1 <= Len(pat) /\ pat[q + 1] = "?"
          next == IF lazy THEN q + 2 ELSE IF star THEN q + 1 ELSE q
      IN IF bad THEN [ok |-> FALSE, terms |-> <<>>]
         ELSE LET rest == ParseRegex(pat, next)
              IN [ok |-> rest.ok,
                  terms |-> <<[kind |-> atom.kind, ch |-> atom.ch, star |-> star]>>
                            \o rest.terms]

\* const createFuzzyRegex = (str) => ... : [null, ok, terms], null for the
\* empty string
CreateFuzzyRegex(str) ==
    IF str = <<>> THEN [null |-> TRUE, ok |-> TRUE, terms |-> <<>>]
    ELSE LET r == ParseRegex(JoinDotStar(EscapeChars(str)), 1)
         IN [null |-> FALSE, ok |-> r.ok, terms |-> r.terms]

AtomMatches(term, c) ==
    IF term.kind = "any" THEN c # "\n" ELSE Lower(c) = Lower(term.ch)

RECURSIVE MatchAt(_, _, _, _)
\* the terms from the k-th on match a prefix of name starting at position p
MatchAt(terms, k, name, p) ==
    IF k > Len(terms) THEN TRUE
    ELSE IF terms[k].star
         THEN \E n \in 0..(Len(name) - p + 1) :
                 /\ \A j \in p..(p + n - 1) : AtomMatches(terms[k], name[j])
                 /\ MatchAt(terms, k + 1, name, p + n)
         ELSE /\ p <= Len(name)
              /\ AtomMatches(terms[k], name[p])
              /\ MatchAt(terms, k + 1, name, p + 1)

\* regex.test(name), unanchored
RegexTest(terms, name) == \E p \in 1..(Len(name) + 1) : MatchAt(terms, 1, name, p)

\* !searchTermRef.current || (regex ? regex.test(name) : true)
FuzzyTest(term, name) ==
    \/ term = <<>>
    \/ LET regex == CreateFuzzyRegex(term)
       IN IF regex.null THEN TRUE ELSE RegexTest(regex.terms, name)

\* The file names and search terms of the scenarios.
Name_cube == <<"c", "u", "b", "e">>
Name_redbox == <<"r", "e", "d", "b", "o", "x">>
Name_Bolt == <<"B", "o", "l", "t">>
Name_gear == <<"g", "e", "a", "r">>
Name_hook == <<"h", "o", "o", "k">>
Name_nut == <<"n", "u", "t">>
Name_pin == <<"p", "i", "n">>
Name_axle == <<"a", "x", "l", "e">>
Name_knob == <<"k", "n", "o", "b">>

Term_box == <<"b", "o", "x">>
Term_BO == <<"B", "O">>
Term_o == <<"o">>

KnownNames == {Name_cube, Name_redbox, Name_Bolt, Name_gear, Name_hook, Name_nut,
               Name_pin, Name_axle, Name_knob}
KnownTerms == {<<>>, Term_box, Term_BO, Term_o}

\* FuzzyTest on the scenarios' terms and names, computed once
MatchTable == [t \in KnownTerms, n \in KnownNames |-> FuzzyTest(t, n)]

\* isMatch, for mesh.userData.fileName = name
IsMatch(term, name) ==
    IF term \in KnownTerms /\ name \in KnownNames
    THEN MatchTable[term, name]
    ELSE FuzzyTest(term, name)

-----------------------------------------------------------------------------
(* Grid configuration and view parameters *)

GetGridConfigInclusive(width) ==
    IF width >= WideWidth THEN 6 ELSE IF width >= NarrowWidth THEN 4 ELSE 2

GetGridConfig(width) ==
    IF width > WideWidth THEN 6 ELSE IF width > NarrowWidth THEN 4 ELSE 2

\* updateViewParams(w, h): [gridCols, homeZ, gridYOffset]
UpdateViewParams(w, h) ==
    LET cols == GetGridConfig(w)
        contentWidth == ((cols - 1) * SPACING) + MODEL_SIZE + ContentMargin
        requiredZ == (contentWidth * h * TanDen) \div (2 * TanNum * w)
        hz == Max(requiredZ, MinHomeZ)
        worldTop == (hz * TanNum) \div TanDen
        topOffset == IF w <= NarrowWidth THEN TopOffsetNarrow ELSE TopOffsetWide
    IN [gridCols |-> cols, homeZ |-> hz, gridYOffset |-> worldTop - topOffset]

\* updateZoomTargets(w, h): the new panShiftRef
UpdateZoomTargets(w, h, sidebarWidth) ==
    LET visibleHeight == (2 * ZoomCamDist * TanNum) \div TanDen
    IN IF w > NarrowWidth
       THEN <<(sidebarWidth * visibleHeight) \div (2 * h), 0>>
       ELSE <<0, -((sidebarWidth * visibleHeight) \div (2 * h))>>

-----------------------------------------------------------------------------
(* The same computations in floating point, by kind of number: "zero", "fin" *)
(* (finite and not zero), "inf" (an infinity) or "nan".  The operands are    *)
(* never negative.                                                           *)

KindOf(n) == IF n = 0 THEN "zero" ELSE "fin"

\* a / b
KDiv(a, b) ==
    IF a = "nan" \/ b = "nan" THEN "nan"
    ELSE IF b = "zero" THEN (IF a = "zero" THEN "nan" ELSE "inf")
    ELSE IF b = "inf" THEN (IF a = "inf" THEN "nan" ELSE "zero")
    ELSE a

\* a * b
KMul(a, b) ==
    IF a = "nan" \/ b = "nan" THEN "nan"
    ELSE IF {a, b} = {"zero", "inf"} THEN "nan"
    ELSE IF a = "zero" \/ b = "zero" THEN "zero"
    ELSE IF a = "inf" \/ b = "inf" THEN "inf"
    ELSE "fin"

\* Math.max(a, c) for a finite c > 0
KMaxWith(a) == IF a \in {"nan", "inf"} THEN a ELSE "fin"

\* a - c for a finite c
KMinus(a) == IF a \in {"nan", "inf"} THEN a ELSE "fin"

\* is the value a number one can place or aim a camera with
KFinite(a) == IF a \in {"zero", "fin"} THEN "finite" ELSE a

\* updateViewParams(w, h): the kinds of aspect, homeZRef and gridYOffsetRef
ViewKinds(w, h) ==
    LET aspect == KDiv(KindOf(w), KindOf(h))
        requiredZ == KDiv("fin", KMul("fin", aspect))
        hz == KMaxWith(requiredZ)
        worldTop == KMul(hz, "fin")
    IN [aspect |-> KFinite(aspect), homeZ |-> KFinite(hz),
        gridYOffset |-> KFinite(KMinus(worldTop))]

\* updateZoomTargets(w, h): the kind of the pan shift (of its component that
\* is not 0)
ZoomKind(w, h, sidebarWidth) ==
    IF w > NarrowWidth
    THEN LET visibleWidth == KMul("fin", KDiv(KindOf(w), KindOf(h)))
             unitsPerPixel == KDiv(visibleWidth, KindOf(w))
         IN KFinite(KMul(KindOf(sidebarWidth), unitsPerPixel))
    ELSE LET unitsPerPixel == KDiv("fin", KindOf(h))
         IN KFinite(KMul(KindOf(sidebarWidth), unitsPerPixel))

-----------------------------------------------------------------------------
(* performLayout *)

\* A mesh object is identified by the session that loaded it and its
\* userData.index: the identity of the mesh of file index of session 0 is index.
SessionStride == 10

MeshId(sess, index) == sess * SessionStride + index

\* mesh.userData.index
IndexOf(id) == id % SessionStride

\* the session whose loader created the mesh
SessionOf(id) == id \div SessionStride

RECURSIVE InsertByIndex(_, _)
InsertByIndex(sorted, id) ==
    IF sorted = <<>> THEN <<id>>
    ELSE IF IndexOf(id) < IndexOf(Head(sorted)) THEN <<id>> \o sorted
    ELSE <<Head(sorted)>> \o InsertByIndex(Tail(sorted), id)

RECURSIVE SortFrom(_, _)
SortFrom(models, k) ==
    IF k = 0 THEN <<>> ELSE InsertByIndex(SortFrom(models, k - 1), models[k])

SortNone(models) == models

\* loadedModelsRef.current.sort((a, b) => a.userData.index - b.userData.index)
SortByIndex(models) == SortFrom(models, Len(models))

\* the grid cell of the visibleIndex-th matching mesh
GridPos(visibleIndex, cols, yOff) ==
    LET row == visibleIndex \div cols
        col == visibleIndex % cols
        gridWidth == (cols - 1) * SPACING
        startX == -(gridWidth \div 2)
    IN <<startX + col * SPACING, yOff - (row * SPACING), 0>>

PlaceMeshRelative(m, pos) ==
    [m EXCEPT !.matchesSearch = TRUE,
              !.position = <<m.position[1] + pos[1], m.position[2] + pos[2], pos[3]>>,
              !.visible = TRUE]

\* the isMatch branch of the forEach body, on the mesh
PlaceMesh(m, pos) ==
    [m EXCEPT !.matchesSearch = TRUE, !.position = pos, !.visible = TRUE]

\* hit = boundingSpheresRef.current.find(b => b.model === mesh);
\* if (hit) hit.sphere.center.copy(mesh.position)
MoveSphere(spheres, id, pos) ==
    IF \E j \in DOMAIN spheres : spheres[j].model = id
    THEN LET first == CHOOSE j \in DOMAIN spheres :
                         /\ spheres[j].model = id
                         /\ \A i \in 1..(j - 1) : spheres[i].model # id
         IN [spheres EXCEPT ![first].center = pos]
    ELSE spheres

RECURSIVE LayoutLoop(_, _, _, _, _, _, _, _)
LayoutLoop(sorted, k, visibleIndex, spheres, meshes, term, cols, yOff) ==
    IF k > Len(sorted)
    THEN [boundingSpheres |-> spheres, mesh |-> meshes, visibleIndex |-> visibleIndex]
    ELSE
      LET id == sorted[k]
      IN IF IsMatch(term, meshes[id].fileName)
         THEN LET placed == PlaceMesh(meshes[id], GridPos(visibleIndex, cols, yOff))
              IN LayoutLoop(sorted, k + 1, visibleIndex + 1,
                            MoveSphere(spheres, id, placed.position),
                            [meshes EXCEPT ![id] = placed], term, cols, yOff)
         ELSE LayoutLoop(sorted, k + 1, visibleIndex, spheres,
                         [meshes EXCEPT ![id].matchesSearch = FALSE,
                                        ![id].visible = FALSE],
                         term, cols, yOff)

\* visibleRowsRef.current = Math.ceil(visibleIndex / cols), with what the loop
\* left
LayoutEnd(sorted, done, cols) ==
    [loadedModels |-> sorted,
     boundingSpheres |-> done.boundingSpheres,
     mesh |-> done.mesh,
     visibleRows |-> (done.visibleIndex + cols - 1) \div cols]

\* the forEach over the sorted registry
LayoutSorted(sorted, spheres, meshes, term, cols, yOff) ==
    LayoutEnd(sorted, LayoutLoop(sorted, 1, 0, spheres, meshes, term, cols, yOff),
              cols)

\* performLayout(): the new loadedModels, boundingSpheres, mesh, visibleRows
PerformLayout(models, spheres, meshes, term, cols, yOff) ==
    LayoutSorted(SortByIndex(models), spheres, meshes, term, cols, yOff)

-----------------------------------------------------------------------------
(* The state as one record, so that a handler is a function from the state *)
(* before it to the state after it and a handler's calls compose.          *)

St ==
    [files |-> files, session |-> session, stale |-> stale,
     animationFrame |-> animationFrame, pendingFrames |-> pendingFrames,
     loadStatus |-> loadStatus, loadedCount |-> loadedCount,
     loadedModels |-> loadedModels, boundingSpheres |-> boundingSpheres,
     mesh |-> mesh, visibleRows |-> visibleRows, viewport |-> viewport,
     viewKinds |-> viewKinds,
     gridCols |-> gridCols, homeZ |-> homeZ, gridYOffset |-> gridYOffset,
     panelSize |-> panelSize, panShift |-> panShift, searchTerm |-> searchTerm,
     isZoomed |-> isZoomed, zoomedModel |-> zoomedModel,
     hostSelected |-> hostSelected, orbit |-> orbit, isMouseDown |-> isMouseDown,
     isDragging |-> isDragging, dragStart |-> dragStart, touchStart |-> touchStart,
     scrollOffset |-> scrollOffset, targetCamPos |-> targetCamPos,
     targetLookAt |-> targetLookAt, currentCamPos |-> currentCamPos,
     currentLookAt |-> currentLookAt, cameraPos |-> cameraPos,
     hoveredModel |-> hoveredModel, glow |-> glow, frames |-> frames,
     outSelect |-> outSelect, outHover |-> outHover, outProgress |-> outProgress,
     lastOp |-> lastOp, outClick |-> outClick, outThrown |-> outThrown,
     touches |-> touches, pressPos |-> pressPos, atPress |-> atPress,
     selectScroll |-> selectScroll, travel |-> travel]

\* the step's new state is the record s
\* (the record is bound once, so that it is computed once)
Becomes(s) ==
    \E r \in {s} :
        /\ files' = r.files
        /\ session' = r.session
        /\ stale' = r.stale
        /\ animationFrame' = r.animationFrame
        /\ pendingFrames' = r.pendingFrames
        /\ loadStatus' = r.loadStatus
        /\ loadedCount' = r.loadedCount
        /\ loadedModels' = r.loadedModels
        /\ boundingSpheres' = r.boundingSpheres
        /\ mesh' = r.mesh
        /\ visibleRows' = r.visibleRows
        /\ viewport' = r.viewport
        /\ viewKinds' = r.viewKinds
        /\ gridCols' = r.gridCols
        /\ homeZ' = r.homeZ
        /\ gridYOffset' = r.gridYOffset
        /\ panelSize' = r.panelSize
        /\ panShift' = r.panShift
        /\ searchTerm' = r.searchTerm
        /\ isZoomed' = r.isZoomed
        /\ zoomedModel' = r.zoomedModel
        /\ hostSelected' = r.hostSelected
        /\ orbit' = r.orbit
        /\ isMouseDown' = r.isMouseDown
        /\ isDragging' = r.isDragging
        /\ dragStart' = r.dragStart
        /\ touchStart' = r.touchStart
        /\ scrollOffset' = r.scrollOffset
        /\ targetCamPos' = r.targetCamPos
        /\ targetLookAt' = r.targetLookAt
        /\ currentCamPos' = r.currentCamPos
        /\ currentLookAt' = r.currentLookAt
        /\ cameraPos' = r.cameraPos
        /\ hoveredModel' = r.hoveredModel
        /\ glow' = r.glow
        /\ frames' = r.frames
        /\ outSelect' = r.outSelect
        /\ outHover' = r.outHover
        /\ outProgress' = r.outProgress
        /\ lastOp' = r.lastOp
        /\ outClick' = r.outClick
        /\ outThrown' = r.outThrown
        /\ touches' = r.touches
        /\ pressPos' = r.pressPos
        /\ atPress' = r.atPress
        /\ selectScroll' = r.selectScroll
        /\ travel' = r.travel

\* a step begins: nothing has been notified yet, a gesture that has ended is
\* forgotten, and so is, at the next step that is not a frame, a selection that
\* has been cleared
Begin(s, op) ==
    [s EXCEPT !.outSelect = <<>>, !.outHover = <<>>, !.outProgress = <<>>,
              !.outClick = <<>>, !.outThrown = <<>>, !.lastOp = op, !.travel = IF s.isMouseDown THEN @ ELSE "idle",
              !.selectScroll = IF s.isZoomed \/ op = "frame" THEN @ ELSE 0]

\* onHover(null); a hover is [model, name, anchor]
NoHover == [model |-> NoModel, name |-> <<>>, anchor |-> <<0, 0, 0>>]

\* the host: onModelSelect = setSelectedModel
OnModelSelect(s, model) ==
    [s EXCEPT !.hostSelected = model, !.outSelect = Append(@, model)]

OnHover(s, data) == [s EXCEPT !.outHover = Append(@, data)]

OnProgress(s, n, total) == [s EXCEPT !.outProgress = Append(@, <<n, total>>)]

\* the refs performLayout() writes
WithLayout(s, r) ==
    [s EXCEPT !.loadedModels = r.loadedModels,
              !.boundingSpheres = r.boundingSpheres,
              !.mesh = r.mesh,
              !.visibleRows = r.visibleRows]

\* performLayout() on the state
DoLayout(s) ==
    WithLayout(s, PerformLayout(s.loadedModels, s.boundingSpheres, s.mesh,
                                s.searchTerm, s.gridCols, s.gridYOffset))

-----------------------------------------------------------------------------
(* zoomIn, zoomOut, handleSingleClick *)

ZoomInAngles == [theta |-> PiMilli \div 4, phi |-> PiMilli \div 3]

\* zoomIn(model)
ZoomIn(s, model) ==
    LET s1 == [s EXCEPT !.isZoomed = TRUE,
                        !.zoomedModel = model,
                        !.hoveredModel = NoModel,
                        !.selectScroll = s.scrollOffset]
        s2 == OnHover(s1, NoHover)
        s3 == [s2 EXCEPT !.glow = [@ EXCEPT !.opacity = 0, !.scale = 0,
                                            !.visible = FALSE],
                         !.orbit = ZoomInAngles,
                         !.mesh = [id \in DOMAIN s.mesh |->
                                     IF id # model
                                     THEN [s.mesh[id] EXCEPT !.visible = FALSE,
                                                             !.opacity = 0,
                                                             !.transparent = TRUE]
                                     ELSE [s.mesh[id] EXCEPT !.visible = TRUE,
                                                             !.opacity = Opaque,
                                                             !.transparent = FALSE]]]
        s4 == OnModelSelect(s3, model)
    IN [s4 EXCEPT !.panShift = UpdateZoomTargets(s.viewport[1], s.viewport[2],
                                                 s.panelSize)]

ZoomOutKeepMode(s) ==
    LET s1 == [s EXCEPT !.zoomedModel = NoModel]
        s2 == OnModelSelect(s1, NoModel)
        s3 == [s2 EXCEPT !.targetCamPos = <<0, 0, s.homeZ>>,
                         !.targetLookAt = <<0, -s.scrollOffset, 0>>]
    IN DoLayout(s3)

ZoomOutToTop(s) ==
    LET s1 == [s EXCEPT !.isZoomed = FALSE, !.zoomedModel = NoModel,
                        !.scrollOffset = 0]
        s2 == OnModelSelect(s1, NoModel)
        s3 == [s2 EXCEPT !.targetCamPos = <<0, 0, s.homeZ>>,
                         !.targetLookAt = <<0, 0, 0>>]
    IN DoLayout(s3)

\* zoomOut()
ZoomOut(s) ==
    LET s1 == [s EXCEPT !.isZoomed = FALSE, !.zoomedModel = NoModel]
        s2 == OnModelSelect(s1, NoModel)
        s3 == [s2 EXCEPT !.targetCamPos = <<0, 0, s.homeZ>>,
                         !.targetLookAt = <<0, -s.scrollOffset, 0>>]
    IN DoLayout(s3)

\* raycaster.ray.intersectsSphere(sphere): a ray is the set of the sphere
\* centres whose sphere it passes through
IntersectsSphere(ray, sphere) == sphere.center \in ray

HitTestAny(s, ray) ==
    LET hits == {j \in DOMAIN s.boundingSpheres :
                   IntersectsSphere(ray, s.boundingSpheres[j])}
    IN IF hits = {} THEN NoModel
       ELSE s.boundingSpheres[CHOOSE j \in hits : \A i \in hits : j <= i].model

\* boundingSpheresRef.current.find(item => item.model.userData.matchesSearch
\*                                  && ray.intersectsSphere(item.sphere))
HitTest(s, ray) ==
    LET hits == {j \in DOMAIN s.boundingSpheres :
                   /\ s.mesh[s.boundingSpheres[j].model].matchesSearch
                   /\ IntersectsSphere(ray, s.boundingSpheres[j])}
    IN IF hits = {} THEN NoModel
       ELSE s.boundingSpheres[CHOOSE j \in hits : \A i \in hits : j <= i].model

HandleSingleClickNoToggle(s, ray) ==
    LET hit == HitTest(s, ray)
        s1 == [s EXCEPT !.outClick = Append(@, [wasZoomed |-> s.isZoomed,
                                                hit |-> hit])]
    IN IF ~s.isZoomed /\ hit # NoModel THEN ZoomIn(s1, hit) ELSE s1

\* a click handler that, while Orbiting, keeps the selection when the ray hits
\* the selected object
HandleSingleClickKeepOnSelf(s, ray) ==
    LET hit == HitTest(s, ray)
        s1 == [s EXCEPT !.outClick = Append(@, [wasZoomed |-> s.isZoomed,
                                                hit |-> hit])]
    IN IF s.isZoomed
       THEN (IF hit # NoModel /\ hit = s.zoomedModel THEN s1 ELSE ZoomOut(s1))
       ELSE IF hit # NoModel THEN ZoomIn(s1, hit)
       ELSE s1

HandleSingleClickSwitch(s, ray) ==
    LET hit == HitTest(s, ray)
        s1 == [s EXCEPT !.outClick = Append(@, [wasZoomed |-> s.isZoomed,
                                                hit |-> hit])]
    IN IF s.isZoomed /\ hit # NoModel /\ hit # s.zoomedModel THEN ZoomIn(s1, hit)
       ELSE IF s.isZoomed THEN ZoomOut(s1)
       ELSE IF hit # NoModel THEN ZoomIn(s1, hit)
       ELSE s1

\* handleSingleClick()
HandleSingleClick(s, ray) ==
    LET hit == HitTest(s, ray)
        s1 == [s EXCEPT !.outClick = Append(@, [wasZoomed |-> s.isZoomed,
                                                hit |-> hit])]
    IN IF s.isZoomed THEN ZoomOut(s1)
       ELSE IF hit # NoModel THEN ZoomIn(s1, hit)
       ELSE s1

-----------------------------------------------------------------------------
(* Input handlers *)

ClampPhiNone(phi) == phi

\* Math.max(0.1, Math.min(Math.PI - 0.1, phi))
ClampPhi(phi) == Max(PhiMargin, Min(PiMilli - PhiMargin, phi))

\* Math.max(0, contentHeight - gridYOffsetRef.current)
MaxScroll(rows, yOff) == Max(0, rows * SPACING - yOff)

\* Math.max(0, Math.min(scrollOffsetRef.current, maxScroll))
ClampScroll(offset, maxScroll) == Max(0, Min(offset, maxScroll))

\* |dx| > 5 || |dy| > 5
Exceeds(p, q) ==
    Abs(p[1] - q[1]) > DragThreshold \/ Abs(p[2] - q[2]) > DragThreshold

\* the travel of the gesture in progress once the pointer is at p
Travelled(s, p) ==
    IF ~s.isMouseDown THEN s.travel
    ELSE IF s.travel = "far" \/ Exceeds(p, s.pressPos) THEN "far"
    ELSE IF s.travel = "none" /\ p = s.pressPos THEN "none"
    ELSE "near"

\* the orbit angles after a drag of (dx, dy) pixels
Orbited(o, dx, dy) ==
    [theta |-> o.theta - dx * OrbitSensitivity,
     phi |-> ClampPhi(o.phi - dy * OrbitSensitivity)]

\* handleMouseDown(e)
HandleMouseDown(s, p) ==
    [s EXCEPT !.isMouseDown = TRUE, !.isDragging = FALSE, !.dragStart = p,
              !.pressPos = p, !.travel = "none"]

\* handleMouseMove(e)
HandleMouseMove(s, p) ==
    LET h == [s EXCEPT !.travel = Travelled(s, p)]
    IN IF h.isMouseDown /\ h.isZoomed /\ h.zoomedModel # NoModel
       THEN LET s1 == IF ~h.isDragging /\ Exceeds(p, h.dragStart)
                      THEN [h EXCEPT !.isDragging = TRUE, !.dragStart = p]
                      ELSE h
            IN IF s1.isDragging
               THEN [s1 EXCEPT !.orbit = Orbited(s1.orbit, p[1] - s1.dragStart[1],
                                                 p[2] - s1.dragStart[2]),
                               !.dragStart = p]
               ELSE s1
       ELSE h

\* handleMouseUp(e) without its test of wasMouseDown
HandleMouseUpUnguarded(s, ray) ==
    LET s1 == [s EXCEPT !.isMouseDown = FALSE]
        s2 == IF ~s1.isDragging THEN HandleSingleClick(s1, ray) ELSE s1
    IN [s2 EXCEPT !.isDragging = FALSE, !.pressPos = <<0, 0>>]

\* handleMouseUp(e)
HandleMouseUp(s, ray) ==
    LET wasMouseDown == s.isMouseDown
        s1 == [s EXCEPT !.isMouseDown = FALSE]
        s2 == IF ~s1.isDragging /\ wasMouseDown THEN HandleSingleClick(s1, ray)
              ELSE s1
    IN [s2 EXCEPT !.isDragging = FALSE, !.pressPos = <<0, 0>>]

\* handleTouchStart(e), n = e.touches.length, p = e.touches[0]
HandleTouchStart(s, n, p) ==
    IF n = 1
    THEN [s EXCEPT !.isMouseDown = TRUE, !.isDragging = FALSE, !.touchStart = p,
                   !.pressPos = p, !.travel = "none"]
    ELSE s

\* handleTouchMove(e), n = e.touches.length, p = e.touches[0]
HandleTouchMove(s, n, p) ==
    IF n # 1 THEN s
    ELSE
      LET h == [s EXCEPT !.travel = Travelled(s, p)]
          deltaX == p[1] - h.touchStart[1]
          deltaY == p[2] - h.touchStart[2]
          s1 == IF ~h.isDragging /\ Exceeds(p, h.touchStart)
                THEN [h EXCEPT !.isDragging = TRUE]
                ELSE h
          s2 == IF s1.isZoomed /\ s1.zoomedModel # NoModel
                THEN [s1 EXCEPT !.orbit = Orbited(s1.orbit, deltaX, deltaY)]
                ELSE [s1 EXCEPT !.scrollOffset =
                        ClampScroll(@ + (-deltaY * TouchScrollSensitivity),
                                    MaxScroll(s1.visibleRows, s1.gridYOffset))]
      IN [s2 EXCEPT !.touchStart = p]

\* handleTouchEnd(e)
HandleTouchEnd(s, ray) ==
    LET s1 == [s EXCEPT !.isMouseDown = FALSE]
        s2 == IF ~s1.isDragging THEN HandleSingleClick(s1, ray) ELSE s1
    IN [s2 EXCEPT !.isDragging = FALSE, !.pressPos = <<0, 0>>]

\* a wheel handler that scrolls by moving the objects instead of the camera
HandleWheelMovingGrid(s, deltaY) ==
    IF s.isZoomed THEN s
    ELSE [s EXCEPT !.mesh =
            [id \in DOMAIN s.mesh |->
                [s.mesh[id] EXCEPT !.position[2] =
                    @ + (deltaY * WheelNum) \div WheelDen]]]

\* a wheel handler that drops an event whose sum leaves the scroll range
HandleWheelReject(s, deltaY) ==
    LET sum == s.scrollOffset + (deltaY * WheelNum) \div WheelDen
    IN IF s.isZoomed \/ sum < 0 \/ sum > MaxScroll(s.visibleRows, s.gridYOffset)
       THEN s
       ELSE [s EXCEPT !.scrollOffset = sum]

HandleWheelAlways(s, deltaY) ==
    [s EXCEPT !.scrollOffset =
       ClampScroll(@ + (deltaY * WheelNum) \div WheelDen,
                   MaxScroll(s.visibleRows, s.gridYOffset))]

\* handleWheel(e)
HandleWheel(s, deltaY) ==
    IF s.isZoomed THEN s
    ELSE [s EXCEPT !.scrollOffset =
            ClampScroll(@ + (deltaY * WheelNum) \div WheelDen,
                        MaxScroll(s.visibleRows, s.gridYOffset))]

-----------------------------------------------------------------------------
(* Mesh loading, filter, resize, host effects *)

\* const scale = MODEL_SIZE / maxDim, by kind of number
ScaleKind(maxDim) == KFinite(KDiv("fin", KindOf(maxDim)))

\* the mesh of a geometry whose bounding box has some extent
NewMesh(name, index) ==
    [fileName |-> name, index |-> index, matchesSearch |-> TRUE,
     position |-> <<0, 0, 0>>, visible |-> TRUE, opacity |-> Opaque,
     transparent |-> FALSE, scale |-> ScaleKind(MODEL_SIZE)]

OnLoadIncremental(s, index) ==
    LET m == NewMesh(s.files[index + 1], index)
        isMatch == IsMatch(s.searchTerm, m.fileName)
        visibleIndex == Cardinality({id \in DOMAIN s.mesh : s.mesh[id].matchesSearch})
        placed == IF isMatch
                  THEN PlaceMesh(m, GridPos(visibleIndex, s.gridCols, s.gridYOffset))
                  ELSE [m EXCEPT !.matchesSearch = FALSE, !.visible = FALSE]
        s1 == [s EXCEPT !.loadStatus[index] = "loaded",
                        !.boundingSpheres = Append(@, [model |-> MeshId(s.session, index),
                                                       center |-> placed.position]),
                        !.mesh = [id \in DOMAIN s.mesh \cup {MeshId(s.session, index)} |->
                                    IF id = MeshId(s.session, index) THEN placed
                                    ELSE s.mesh[id]],
                        !.loadedModels = SortByIndex(Append(@, MeshId(s.session, index))),
                        !.visibleRows = (visibleIndex + (IF isMatch THEN 1 ELSE 0)
                                           + s.gridCols - 1) \div s.gridCols,
                        !.loadedCount = @ + 1]
    IN OnProgress(s1, s.loadedCount + 1, Len(s.files))

\* the onLoad callback from boundingSpheresRef.current.push to performLayout(),
\* for the new mesh m of identity id
AddMesh(s, id, m) ==
    DoLayout([s EXCEPT !.boundingSpheres = Append(@, [model |-> id,
                                                      center |-> m.position]),
                       !.mesh = [j \in DOMAIN s.mesh \cup {id} |->
                                   IF j = id THEN m ELSE s.mesh[j]],
                       !.loadedModels = Append(@, id)])

\* the onLoad callback of loader.load in loadModel(file, index)
OnLoad(s, index) ==
    LET m == NewMesh(s.files[index + 1], index)
        s2 == [AddMesh(s, MeshId(s.session, index), m)
                 EXCEPT !.loadStatus[index] = "loaded", !.loadedCount = @ + 1]
    IN OnProgress(s2, s.loadedCount + 1, Len(s.files))

\* the onLoad callback for a geometry whose bounding box has the largest
\* dimension maxDim
OnLoadOfSize(s, index, maxDim) ==
    LET r == OnLoad(s, index)
    IN [r EXCEPT !.mesh[MeshId(s.session, index)].scale = ScaleKind(maxDim)]

\* the same callback of a load of the torn-down session k: its files and its
\* loadedCount are those of its own closure, the refs are the component's
OnStaleLoad(s, k, index) ==
    LET m == NewMesh(s.stale[k + 1].files[index + 1], index)
        s2 == [AddMesh(s, MeshId(k, index), m)
                 EXCEPT !.stale[k + 1].loadStatus[index] = "loaded",
                        !.stale[k + 1].loadedCount = @ + 1]
    IN OnProgress(s2, s.stale[k + 1].loadedCount + 1, Len(s.stale[k + 1].files))

OnLoadErrorPlaceholder(s, index) ==
    [OnLoad(s, index) EXCEPT !.loadStatus[index] = "failed"]

OnLoadErrorSilent(s, index) == [s EXCEPT !.loadStatus[index] = "failed"]

\* the onError callback of loader.load in loadModel(file, index)
OnLoadError(s, index) ==
    LET s1 == [s EXCEPT !.loadStatus[index] = "failed", !.loadedCount = @ + 1]
    IN OnProgress(s1, s1.loadedCount, Len(s.files))

\* the onError callback of a load of the torn-down session k
OnStaleLoadError(s, k, index) ==
    LET s1 == [s EXCEPT !.stale[k + 1].loadStatus[index] = "failed",
                        !.stale[k + 1].loadedCount = @ + 1]
    IN OnProgress(s1, s1.stale[k + 1].loadedCount, Len(s.stale[k + 1].files))

\* useEffect(..., [searchTerm]): searchTermRef.current = searchTerm; performLayout()
\* the searchTerm effects scrolling back to the top
SearchTermEffectToTop(s, term) ==
    [DoLayout([s EXCEPT !.searchTerm = term]) EXCEPT !.scrollOffset = 0]

SearchTermEffect(s, term) == DoLayout([s EXCEPT !.searchTerm = term])

\* the same effects for any search text: when new RegExp(pattern, 'i') throws,
\* performLayout() ends there, after its sort
SearchTermEffectAny(s, term) ==
    IF CreateFuzzyRegex(term).ok
    THEN SearchTermEffect(s, term)
    ELSE [s EXCEPT !.searchTerm = term,
                   !.loadedModels = SortByIndex(@),
                   !.outThrown = Append(@, "SyntaxError")]

\* if (isZoomedRef.current && zoomedModelRef.current) updateZoomTargets(w, h)
RetargetZoom(s, w, h) ==
    IF s.isZoomed /\ s.zoomedModel # NoModel
    THEN [s EXCEPT !.panShift = UpdateZoomTargets(w, h, s.panelSize)]
    ELSE s

\* handleResize() with the container now w x h
\* handleResize() without its call of performLayout()
\* handleResize() moving the interpolated camera to the new home distance at
\* once
HandleResizeSnap(s, w, h) ==
    LET v == UpdateViewParams(w, h)
        s1 == [s EXCEPT !.viewport = <<w, h>>,
                        !.gridCols = v.gridCols,
                        !.homeZ = v.homeZ,
                        !.gridYOffset = v.gridYOffset]
        s2 == IF ~s1.isZoomed
              THEN [s1 EXCEPT !.cameraPos[3] = v.homeZ, !.targetCamPos[3] = v.homeZ,
                              !.currentCamPos[3] = v.homeZ]
              ELSE s1
    IN RetargetZoom(DoLayout(s2), w, h)

HandleResizeNoLayout(s, w, h) ==
    LET v == UpdateViewParams(w, h)
        s1 == [s EXCEPT !.viewport = <<w, h>>,
                        !.gridCols = v.gridCols,
                        !.homeZ = v.homeZ,
                        !.gridYOffset = v.gridYOffset]
        s2 == IF ~s1.isZoomed
              THEN [s1 EXCEPT !.cameraPos[3] = v.homeZ, !.targetCamPos[3] = v.homeZ]
              ELSE s1
    IN RetargetZoom(s2, w, h)

HandleResize(s, w, h) ==
    LET v == UpdateViewParams(w, h)
        s1 == [s EXCEPT !.viewport = <<w, h>>,
                        !.gridCols = v.gridCols,
                        !.homeZ = v.homeZ,
                        !.gridYOffset = v.gridYOffset]
        s2 == IF ~s1.isZoomed
              THEN [s1 EXCEPT !.cameraPos[3] = v.homeZ, !.targetCamPos[3] = v.homeZ]
              ELSE s1
    IN RetargetZoom(DoLayout(s2), w, h)

\* handleResize() with a container of any size, one of zero width or height
\* included. With such a size the refs whose new value is not a number keep,
\* here, the number they had, and viewKinds says what they hold.
HandleResizeAny(s, w, h) ==
    LET v == ViewKinds(w, h)
        kinds == [aspect |-> v.aspect, homeZ |-> v.homeZ,
                  gridYOffset |-> v.gridYOffset,
                  panShift |-> IF s.isZoomed /\ s.zoomedModel # NoModel
                               THEN ZoomKind(w, h, s.panelSize)
                               ELSE s.viewKinds.panShift]
    IN IF w > 0 /\ h > 0
       THEN [HandleResize(s, w, h) EXCEPT !.viewKinds = kinds]
       ELSE [s EXCEPT !.viewport = <<w, h>>,
                      !.gridCols = GetGridConfig(w),
                      !.viewKinds = kinds]

\* useEffect(..., [panelSize]) (both): panelSizeRef.current = panelSize;
\* if (isZoomedRef.current) updateZoomTargets(clientWidth, clientHeight)
\* the panelSize effects without the call of updateZoomTargets
PanelSizeEffectRefOnly(s, size) == [s EXCEPT !.panelSize = size]

PanelSizeEffect(s, size) ==
    LET s1 == [s EXCEPT !.panelSize = size]
    IN IF s1.isZoomed
       THEN [s1 EXCEPT !.panShift = UpdateZoomTargets(s.viewport[1], s.viewport[2],
                                                      size)]
       ELSE s1

\* useEffect(..., [selectedModel]) after the host set selectedModel to null
SelectedModelEffect(s) ==
    IF s.hostSelected = NoModel /\ s.isZoomed THEN ZoomOut(s) ELSE s

\* the host's onClose: setSelectedModel(null), then the effect
CloseDetail(s) == SelectedModelEffect([s EXCEPT !.hostSelected = NoModel])

-----------------------------------------------------------------------------
(* The frame: animate() *)

\* n / d rounded to the nearest integer
RoundDiv(n, d) ==
    IF n >= 0 THEN (n + d \div 2) \div d ELSE -(((-n) + d \div 2) \div d)

\* THREE.MathUtils.lerp(a, b, t), t in thousandths
Lerp(a, b, t) == a + RoundDiv((b - a) * t, 1000)

\* Vector3.lerp(v, t)
Lerp3(a, b, t) == <<Lerp(a[1], b[1], t), Lerp(a[2], b[2], t), Lerp(a[3], b[3], t)>>

Add3(a, b) == <<a[1] + b[1], a[2] + b[2], a[3] + b[3]>>
Sub3(a, b) == <<a[1] - b[1], a[2] - b[2], a[3] - b[3]>>

\* 1000 * sin(x), x in milliradians within [0, pi]
SinHalf(x) ==
    LET u == x * (PiMilli - x)
    IN (((16 * u) \div 100) * 1000) \div ((5 * PiMilli * PiMilli - 4 * u) \div 100)

\* 1000 * Math.sin(x), x in milliradians
Sin(x) ==
    LET y == x % (2 * PiMilli)
    IN IF y <= PiMilli THEN SinHalf(y) ELSE -SinHalf(y - PiMilli)

\* 1000 * Math.cos(x), x in milliradians
Cos(x) == Sin(x + PiMilli \div 2)

RECURSIVE SqrtFrom(_, _)
SqrtFrom(n, r) ==
    LET next == (r + n \div r) \div 2
    IN IF next >= r THEN r ELSE SqrtFrom(n, next)

\* the integer part of Math.sqrt(n)
Sqrt(n) == IF n <= 0 THEN 0 ELSE SqrtFrom(n, n)

\* v.normalize().multiplyScalar(len)
WithLength(v, len) ==
    LET norm == Sqrt(v[1] * v[1] + v[2] * v[2] + v[3] * v[3])
    IN IF norm = 0 THEN <<0, 0, 0>>
       ELSE <<RoundDiv(v[1] * len, norm), RoundDiv(v[2] * len, norm),
              RoundDiv(v[3] * len, norm)>>

FrameHoverWhileDragging(s, ray) ==
    IF ~s.isZoomed
    THEN LET hit == HitTest(s, ray)
             s1 == [s EXCEPT !.hoveredModel = hit]
         IN IF hit # NoModel
            THEN OnHover(s1, [model |-> hit,
                              name |-> s.mesh[hit].fileName,
                              anchor |-> Sub3(s.mesh[hit].position,
                                              <<0, (MODEL_SIZE * 55) \div 100, 0>>)])
            ELSE OnHover(s1, NoHover)
    ELSE OnHover([s EXCEPT !.hoveredModel = NoModel], NoHover)

\* 1. raycasting and hover
FrameHover(s, ray) ==
    IF ~s.isZoomed /\ ~s.isDragging
    THEN LET hit == HitTest(s, ray)
             s1 == [s EXCEPT !.hoveredModel = hit]
         IN IF hit # NoModel
            THEN OnHover(s1, [model |-> hit,
                              name |-> s.mesh[hit].fileName,
                              anchor |-> Sub3(s.mesh[hit].position,
                                              <<0, (MODEL_SIZE * 55) \div 100, 0>>)])
            ELSE OnHover(s1, NoHover)
    ELSE OnHover([s EXCEPT !.hoveredModel = NoModel], NoHover)

\* 2. glow animation
FrameGlow(s) ==
    LET active == s.hoveredModel # NoModel /\ ~s.isZoomed /\ ~s.isDragging
        targetOpacity == IF active THEN GlowOpacityActive ELSE 0
        targetScale == IF active THEN MODEL_SIZE * 3 ELSE (MODEL_SIZE * 3) \div 2
        speed == IF active THEN LerpGlowActive ELSE LerpGlowIdle
        position == IF active
                    THEN LET modelPos == s.mesh[s.hoveredModel].position
                         IN Add3(modelPos,
                                 WithLength(Sub3(modelPos, s.cameraPos), MODEL_SIZE))
                    ELSE s.glow.position
        opacity == Lerp(s.glow.opacity, targetOpacity, speed)
    IN [s EXCEPT !.glow = [opacity |-> opacity,
                           scale |-> Lerp(s.glow.scale, targetScale, speed),
                           visible |-> opacity > VisibleAbove,
                           position |-> position]]

\* radius * a * b for a, b in thousandths
Scaled(radius, a, b) == RoundDiv(radius * a * b, 1000000)

\* 3. camera animation
FrameCamera(s) ==
    LET s1 ==
          IF ~s.isZoomed
          THEN LET target == <<0, -s.scrollOffset, s.homeZ>>
                   lookAt == <<0, -s.scrollOffset, 0>>
               IN [s EXCEPT !.targetCamPos = target,
                            !.targetLookAt = lookAt,
                            !.currentCamPos = Lerp3(@, target, LerpResting),
                            !.currentLookAt = Lerp3(@, lookAt, LerpResting)]
          ELSE IF s.zoomedModel # NoModel
          THEN LET sinPhi == Sin(s.orbit.phi)
                   cosPhi == Cos(s.orbit.phi)
                   sinTheta == Sin(s.orbit.theta)
                   cosTheta == Cos(s.orbit.theta)
                   orbitOffset == <<Scaled(OrbitRadius, sinPhi, sinTheta),
                                    RoundDiv(OrbitRadius * cosPhi, 1000),
                                    Scaled(OrbitRadius, sinPhi, cosTheta)>>
                   \* rightVec = normalize(viewDir x up) = (cos theta, 0, -sin theta)
                   \* screenUpVec = rightVec x viewDir
                   px == s.panShift[1]
                   py == s.panShift[2]
                   pan == <<RoundDiv(px * cosTheta, 1000)
                              - Scaled(py, cosPhi, sinTheta),
                            RoundDiv(py * sinPhi, 1000),
                            -RoundDiv(px * sinTheta, 1000)
                              - Scaled(py, cosPhi, cosTheta)>>
                   pivot == s.mesh[s.zoomedModel].position
                   lookAt == Add3(pivot, pan)
                   target == Add3(Add3(pivot, orbitOffset), pan)
               IN [s EXCEPT !.targetLookAt = lookAt,
                            !.targetCamPos = target,
                            !.currentCamPos = Lerp3(@, target, LerpOrbiting),
                            !.currentLookAt = Lerp3(@, lookAt, LerpOrbiting)]
          ELSE s
    IN [s1 EXCEPT !.cameraPos = s1.currentCamPos]

\* the objects' step with a visibility threshold of 0.1 instead of 0.01
FrameObjectsLateReveal(s) ==
    [s EXCEPT !.mesh =
       [id \in DOMAIN s.mesh |->
          LET m == s.mesh[id]
          IN IF id = s.zoomedModel
             THEN [m EXCEPT !.transparent = FALSE, !.opacity = Opaque,
                            !.visible = TRUE]
             ELSE IF ~m.matchesSearch
             THEN [m EXCEPT !.visible = FALSE]
             ELSE LET nextOpacity == Lerp(m.opacity,
                                          IF s.isZoomed THEN 0 ELSE Opaque,
                                          LerpObjects)
                  IN [m EXCEPT !.transparent = nextOpacity < FadingBelow,
                               !.opacity = nextOpacity,
                               !.visible = nextOpacity > 10 * VisibleAbove]]]

FrameObjectsFilterFirst(s) ==
    [s EXCEPT !.mesh =
       [id \in DOMAIN s.mesh |->
          LET m == s.mesh[id]
          IN IF ~m.matchesSearch
             THEN [m EXCEPT !.visible = FALSE]
             ELSE IF id = s.zoomedModel
             THEN [m EXCEPT !.transparent = FALSE, !.opacity = Opaque,
                            !.visible = TRUE]
             ELSE LET nextOpacity == Lerp(m.opacity,
                                          IF s.isZoomed THEN 0 ELSE Opaque,
                                          LerpObjects)
                  IN [m EXCEPT !.transparent = nextOpacity < FadingBelow,
                               !.opacity = nextOpacity,
                               !.visible = nextOpacity > VisibleAbove]]]

\* 4. objects animation (the spin of mesh.rotation.z is not modelled)
FrameObjects(s) ==
    [s EXCEPT !.mesh =
       [id \in DOMAIN s.mesh |->
          LET m == s.mesh[id]
          IN IF id = s.zoomedModel
             THEN [m EXCEPT !.transparent = FALSE, !.opacity = Opaque,
                            !.visible = TRUE]
             ELSE IF ~m.matchesSearch
             THEN [m EXCEPT !.visible = FALSE]
             ELSE LET nextOpacity == Lerp(m.opacity,
                                          IF s.isZoomed THEN 0 ELSE Opaque,
                                          LerpObjects)
                  IN [m EXCEPT !.transparent = nextOpacity < FadingBelow,
                               !.opacity = nextOpacity,
                               !.visible = nextOpacity > VisibleAbove]]]

\* animationFrameRef.current = requestAnimationFrame(animate), by the animate
\* of session sess
RequestFrame(s, sess) ==
    [s EXCEPT !.animationFrame = @ + 1,
              !.pendingFrames = @ \cup {[id |-> s.animationFrame + 1,
                                         session |-> sess]}]

\* animate() of the current session: one frame, the pointer casting ray
Frame(s, ray) ==
    LET s1 == FrameObjects(FrameCamera(FrameGlow(FrameHover(
                RequestFrame(s, s.session), ray))))
    IN [s1 EXCEPT !.frames = @ + 1]

\* the camera vectors of the scene effect's closure
Closure(s) ==
    [targetCamPos |-> s.targetCamPos, targetLookAt |-> s.targetLookAt,
     currentCamPos |-> s.currentCamPos, currentLookAt |-> s.currentLookAt]

WithClosure(s, c) ==
    [s EXCEPT !.targetCamPos = c.targetCamPos, !.targetLookAt = c.targetLookAt,
              !.currentCamPos = c.currentCamPos, !.currentLookAt = c.currentLookAt]

\* the camera vectors the frame of session k left go back to its closure
KeepClosure(s, k, own) ==
    WithClosure([s EXCEPT !.stale[k + 1] =
                   [@ EXCEPT !.targetCamPos = s.targetCamPos,
                             !.targetLookAt = s.targetLookAt,
                             !.currentCamPos = s.currentCamPos,
                             !.currentLookAt = s.currentLookAt]],
                own)

\* animate() of the torn-down session k: the refs are the component's, the
\* camera vectors those of its own closure
StaleFrame(s, ray, k) ==
    LET s1 == KeepClosure(FrameCamera(FrameGlow(FrameHover(
                RequestFrame(WithClosure(s, s.stale[k + 1]), k), ray))),
                k, Closure(s))
    IN [FrameObjects(s1) EXCEPT !.frames = @ + 1]

\* the callback requestAnimationFrame runs: animate of session sess
RunFrame(s, ray, sess) ==
    IF sess = s.session THEN Frame(s, ray) ELSE StaleFrame(s, ray, sess)

-----------------------------------------------------------------------------
(* The scene effect: its cleanup and its run for a new file list *)

CleanupNoCancel(s) == s

\* the cleanup: cancelAnimationFrame(animationFrameRef.current) (the listeners
\* it removes are those of the session, which takes no input from then on)
Cleanup(s) ==
    [s EXCEPT !.pendingFrames = {f \in @ : f.id # s.animationFrame}]

\* the session is over: its load callbacks and its closure stay behind
Retire(s) ==
    [s EXCEPT !.stale = Append(@, [files |-> s.files,
                                   loadStatus |-> s.loadStatus,
                                   loadedCount |-> s.loadedCount,
                                   targetCamPos |-> s.targetCamPos,
                                   targetLookAt |-> s.targetLookAt,
                                   currentCamPos |-> s.currentCamPos,
                                   currentLookAt |-> s.currentLookAt]),
              !.session = @ + 1]

\* the effect's body for the file list fileList, on the refs as they are
SceneEffect(s, fileList, ray) ==
    IF fileList = <<>>
    THEN [s EXCEPT !.files = fileList,
                   !.loadStatus = [i \in {} |-> "pending"],
                   !.loadedCount = 0]
    ELSE LET v == UpdateViewParams(s.viewport[1], s.viewport[2])
             z == IF s.isZoomed THEN 0 ELSE v.homeZ
         IN Frame([s EXCEPT !.files = fileList,
                            !.loadStatus = [i \in 0..(Len(fileList) - 1) |-> "pending"],
                            !.loadedCount = 0,
                            !.gridCols = v.gridCols,
                            !.homeZ = v.homeZ,
                            !.gridYOffset = v.gridYOffset,
                            !.targetCamPos = <<0, 0, z>>,
                            !.targetLookAt = <<0, 0, 0>>,
                            !.currentCamPos = <<0, 0, v.homeZ>>,
                            !.currentLookAt = <<0, 0, 0>>,
                            !.cameraPos = <<0, 0, z>>,
                            !.glow = [@ EXCEPT !.position = <<0, 0, 0>>]],
                  ray)

\* useEffect(..., [files]) when props.files becomes fileList: the cleanup of the
\* last run, if it got as far as returning one, then the body
FilesEffect(s, fileList, ray) ==
    SceneEffect(Retire(IF s.files # <<>> THEN Cleanup(s) ELSE s), fileList, ray)

-----------------------------------------------------------------------------
(* Bounds and inputs *)

MaxRayHits == 2
MaxLoadSkew == 1
MaxTouches == 1
MaxOrbitSteps == 1
MaxFrames == 4
MaxSessions == 1

DefaultPanelSize == 450

\* the nine-file list of the grid scenarios
GridFiles == <<Name_cube, Name_redbox, Name_Bolt, Name_gear, Name_hook,
               Name_nut, Name_pin, Name_axle, Name_knob>>
GridTerms == {<<>>, Term_o}
\* widths on both sides of the two column-count steps, and at them
GridViewports == {<<768, 1024>>, <<1200, 800>>, <<1300, 800>>}

\* a three-file list for the interaction scenarios
SceneFiles == <<Name_cube, Name_redbox, Name_Bolt>>

\* two viewports with different column counts and vertical origins
SceneViewports == {<<768, 1024>>, <<1300, 800>>}
SceneTerms == {<<>>, Term_box}
\* a two-file list for the orbit scenarios
OrbitFiles == <<Name_cube, Name_redbox>>
\* a press position, one far below it and one 8 px to its right
OrbitPointers == {<<0, 0>>, <<0, 300>>, <<8, 0>>}
PanelSizes == {DefaultPanelSize, 300}
\* a press position, one within the 5 px threshold of it, and one beyond the
\* threshold that is within it of the second
ClickPointers == {<<0, 0>>, <<4, 0>>, <<8, 0>>}
\* a press position and one far below it
ScrollPointers == {<<0, 0>>, <<0, 1000>>}
\* wheel deltas (pixels)
WheelDeltas == {1500, -1500}
\* the largest horizontal pointer travel of one move, in milliradians
OrbitTurn == 8 * OrbitSensitivity

FileIds == 0..(Len(files) - 1)

\* the rays the pointer can cast: through at most MaxRayHits of the spheres'
\* centres (none: the pointer is over the background)
Rays ==
    LET centers == {boundingSpheres[j].center : j \in DOMAIN boundingSpheres}
    IN {r \in SUBSET centers : Cardinality(r) <= MaxRayHits}

-----------------------------------------------------------------------------
(* Initial state: the scene effect has run for a non-empty file list, up to *)
(* and including its call of animate().                                    *)

\* the state the scene effect builds before it calls animate()
Mount(fileList, vp, term) ==
    LET v == UpdateViewParams(vp[1], vp[2])
    IN [files |-> fileList,
        session |-> 0,
        stale |-> <<>>,
        animationFrame |-> 0,
        pendingFrames |-> {},
        loadStatus |-> [i \in 0..(Len(fileList) - 1) |-> "pending"],
        loadedCount |-> 0,
        loadedModels |-> <<>>,
        boundingSpheres |-> <<>>,
        mesh |-> [id \in {} |-> NewMesh(<<>>, id)],
        visibleRows |-> 0,
        viewport |-> vp,
        viewKinds |-> [aspect |-> "finite", homeZ |-> "finite",
                       gridYOffset |-> "finite", panShift |-> "finite"],
        gridCols |-> v.gridCols,
        homeZ |-> v.homeZ,
        gridYOffset |-> v.gridYOffset,
        panelSize |-> DefaultPanelSize,
        panShift |-> <<0, 0>>,
        searchTerm |-> term,
        isZoomed |-> FALSE,
        zoomedModel |-> NoModel,
        hostSelected |-> NoModel,
        orbit |-> [theta |-> 0, phi |-> PiMilli \div 2],
        isMouseDown |-> FALSE,
        isDragging |-> FALSE,
        dragStart |-> <<0, 0>>,
        touchStart |-> <<0, 0>>,
        scrollOffset |-> 0,
        targetCamPos |-> <<0, 0, v.homeZ>>,
        targetLookAt |-> <<0, 0, 0>>,
        currentCamPos |-> <<0, 0, v.homeZ>>,
        currentLookAt |-> <<0, 0, 0>>,
        cameraPos |-> <<0, 0, v.homeZ>>,
        hoveredModel |-> NoModel,
        glow |-> [opacity |-> 0, scale |-> 0, visible |-> FALSE,
                  position |-> <<0, 0, 0>>],
        frames |-> 0,
        outSelect |-> <<>>,
        outHover |-> <<>>,
        outProgress |-> <<>>,
        lastOp |-> "init",
        outClick |-> <<>>,
        outThrown |-> <<>>,
        touches |-> 0,
        pressPos |-> <<0, 0>>,
        atPress |-> [scrollOffset |-> 0,
                     orbit |-> [theta |-> 0, phi |-> PiMilli \div 2]],
        selectScroll |-> 0,
        travel |-> "idle"]

\* the state is the record s
Is(s) ==
    \E r \in {s} :
        /\ files = r.files
        /\ session = r.session
        /\ stale = r.stale
        /\ animationFrame = r.animationFrame
        /\ pendingFrames = r.pendingFrames
        /\ loadStatus = r.loadStatus
        /\ loadedCount = r.loadedCount
        /\ loadedModels = r.loadedModels
        /\ boundingSpheres = r.boundingSpheres
        /\ mesh = r.mesh
        /\ visibleRows = r.visibleRows
        /\ viewport = r.viewport
        /\ viewKinds = r.viewKinds
        /\ gridCols = r.gridCols
        /\ homeZ = r.homeZ
        /\ gridYOffset = r.gridYOffset
        /\ panelSize = r.panelSize
        /\ panShift = r.panShift
        /\ searchTerm = r.searchTerm
        /\ isZoomed = r.isZoomed
        /\ zoomedModel = r.zoomedModel
        /\ hostSelected = r.hostSelected
        /\ orbit = r.orbit
        /\ isMouseDown = r.isMouseDown
        /\ isDragging = r.isDragging
        /\ dragStart = r.dragStart
        /\ touchStart = r.touchStart
        /\ scrollOffset = r.scrollOffset
        /\ targetCamPos = r.targetCamPos
        /\ targetLookAt = r.targetLookAt
        /\ currentCamPos = r.currentCamPos
        /\ currentLookAt = r.currentLookAt
        /\ cameraPos = r.cameraPos
        /\ hoveredModel = r.hoveredModel
        /\ glow = r.glow
        /\ frames = r.frames
        /\ outSelect = r.outSelect
        /\ outHover = r.outHover
        /\ outProgress = r.outProgress
        /\ lastOp = r.lastOp
        /\ outClick = r.outClick
        /\ outThrown = r.outThrown
        /\ touches = r.touches
        /\ pressPos = r.pressPos
        /\ atPress = r.atPress
        /\ selectScroll = r.selectScroll
        /\ travel = r.travel

InitWith(fileList, viewports, terms) ==
    \E vp \in viewports, term \in terms : Is(Frame(Mount(fileList, vp, term), {}))

-----------------------------------------------------------------------------
(* Actions *)

\* a load may complete once every file more than MaxLoadSkew places before it
\* in the list has completed (the starts are staggered by 100 ms per place)
InSkew(i) == \A j \in FileIds : j + MaxLoadSkew < i => loadStatus[j] # "pending"

LoadSuccess(i) ==
    /\ loadStatus[i] = "pending"
    /\ Becomes(OnLoad(Begin(St, "layout"), i))

\* a load completes with a geometry of largest dimension maxDim
LoadGeometry(i, maxDim) ==
    /\ loadStatus[i] = "pending"
    /\ Becomes(OnLoadOfSize(Begin(St, "layout"), i, maxDim))

LoadFailure(i) ==
    /\ loadStatus[i] = "pending"
    /\ Becomes(OnLoadError(Begin(St, "input"), i))

SetSearchTerm(term) ==
    /\ term # searchTerm
    /\ Becomes(SearchTermEffect(Begin(St, "layout"), term))

Resize(vp) ==
    Becomes(HandleResize(Begin(St, "layout"), vp[1], vp[2]))

SetPanelSize(size) ==
    /\ size # panelSize
    /\ Becomes(PanelSizeEffect(Begin(St, "input"), size))

CloseDetailPanel ==
    /\ hostSelected # NoModel
    /\ Becomes(CloseDetail(Begin(St, "input")))

\* one pointer at a time: the mouse acts while no finger is down
MouseDown(p) ==
    /\ touches = 0
    /\ Becomes(HandleMouseDown(Begin(St, "input"), p))

\* the same press, with the scroll offset and the orbit angles it finds noted
PressMouse(p) ==
    /\ touches = 0
    /\ Becomes([HandleMouseDown(Begin(St, "input"), p)
                  EXCEPT !.atPress = [scrollOffset |-> scrollOffset,
                                      orbit |-> orbit]])

\* a move turns the orbit no further than MaxOrbitSteps turns of OrbitTurn
\* from where zoomIn set it
InOrbitSpan(s) ==
    \/ s.orbit.theta = orbit.theta
    \/ Abs(s.orbit.theta - ZoomInAngles.theta) <= MaxOrbitSteps * OrbitTurn

MouseMove(p) ==
    /\ touches = 0
    /\ InOrbitSpan(HandleMouseMove(St, p))
    /\ Becomes(HandleMouseMove(Begin(St, "input"), p))

MouseUp(ray) ==
    /\ touches = 0
    /\ Becomes(HandleMouseUp(Begin(St, "release"), ray))

\* ... and the first finger lands while the mouse button is up
TouchStart(p) ==
    /\ touches < MaxTouches
    /\ touches = 0 => ~isMouseDown
    /\ Becomes(HandleTouchStart([Begin(St, "input") EXCEPT !.touches = @ + 1],
                                touches + 1, p))

\* the landing of the first finger, with the scroll offset and the orbit
\* angles it finds noted
PressTouch(p) ==
    /\ touches = 0
    /\ ~isMouseDown
    /\ Becomes([HandleTouchStart([Begin(St, "input") EXCEPT !.touches = 1], 1, p)
                  EXCEPT !.atPress = [scrollOffset |-> scrollOffset,
                                      orbit |-> orbit]])

TouchMove(p) ==
    /\ touches >= 1
    /\ InOrbitSpan(HandleTouchMove(St, touches, p))
    /\ Becomes(HandleTouchMove(Begin(St, "input"), touches, p))

TouchEnd(ray) ==
    /\ touches >= 1
    /\ Becomes(HandleTouchEnd([Begin(St, "release") EXCEPT !.touches = @ - 1], ray))

Wheel(deltaY) ==
    Becomes(HandleWheel(Begin(St, "input"), deltaY))

\* requestAnimationFrame runs one of the pending callbacks
Animate(ray) ==
    /\ frames < MaxFrames
    /\ \E f \in pendingFrames :
         Becomes(RunFrame([Begin(St, "frame") EXCEPT !.pendingFrames = @ \ {f}],
                          ray, f.session))

\* the host passes any search text
SetQuery(term) ==
    /\ term # searchTerm
    /\ Becomes(SearchTermEffectAny(Begin(St, "layout"), term))

\* the container is resized to any size
ResizeAny(vp) ==
    Becomes(HandleResizeAny(Begin(St, "layout"), vp[1], vp[2]))

\* the host passes another file list
SetFiles(fileList, ray) ==
    /\ session < MaxSessions
    /\ fileList # files
    /\ Becomes(FilesEffect(Begin(St, "files"), fileList, ray))

\* a load of the torn-down session k completes
StaleLoadSuccess(k, i) ==
    /\ i \in DOMAIN stale[k + 1].loadStatus
    /\ stale[k + 1].loadStatus[i] = "pending"
    /\ Becomes(OnStaleLoad(Begin(St, "stale"), k, i))

StaleLoadFailure(k, i) ==
    /\ i \in DOMAIN stale[k + 1].loadStatus
    /\ stale[k + 1].loadStatus[i] = "pending"
    /\ Becomes(OnStaleLoadError(Begin(St, "stale"), k, i))

-----------------------------------------------------------------------------
(* The grid: nine files, loads in any order within the skew, filter changes *)
(* and resizes.                                                            *)

InitGrid == InitWith(GridFiles, GridViewports, {<<>>})

NextGrid ==
    \/ \E i \in FileIds : InSkew(i) /\ LoadSuccess(i)
    \/ \E i \in {4} : InSkew(i) /\ LoadFailure(i)
    \/ \E t \in GridTerms : SetSearchTerm(t)
    \/ \E vp \in GridViewports : Resize(vp)

SpecGrid == InitGrid /\ [][NextGrid]_vars

-----------------------------------------------------------------------------
(* Scrolling the grid: wheel and touch scrolls, taps on the background,      *)
(* filter changes, resizes and loads.                                       *)

InitScroll == InitWith(SceneFiles, SceneViewports, {<<>>})

NextScroll ==
    \/ \E i \in FileIds : InSkew(i) /\ LoadSuccess(i)
    \/ \E i \in {0} : LoadFailure(i)
    \/ \E t \in SceneTerms : SetSearchTerm(t)
    \/ \E vp \in SceneViewports : Resize(vp)
    \/ \E p \in ScrollPointers : TouchStart(p)
    \/ \E p \in ScrollPointers : TouchMove(p)
    \/ \E ray \in {{}} : TouchEnd(ray)
    \/ \E d \in WheelDeltas : Wheel(d)

SpecScroll == InitScroll /\ [][NextScroll]_vars

-----------------------------------------------------------------------------
(* Orbiting: clicks that select and clear, the host's clear, wheel, mouse   *)
(* drags and touch drags, and loads.                                        *)

InitOrbit == InitWith(OrbitFiles, {<<768, 1024>>}, {<<>>})

NextOrbit ==
    \/ \E i \in FileIds : InSkew(i) /\ LoadSuccess(i)
    \/ \E size \in PanelSizes : SetPanelSize(size)
    \/ CloseDetailPanel
    \/ \E p \in {<<0, 0>>} : MouseDown(p)
    \/ \E p \in OrbitPointers : MouseMove(p)
    \/ \E ray \in Rays : MouseUp(ray)
    \/ \E p \in {<<0, 0>>} : TouchStart(p)
    \/ \E p \in OrbitPointers : TouchMove(p)
    \/ \E ray \in Rays : TouchEnd(ray)
    \/ \E d \in WheelDeltas : Wheel(d)

SpecOrbit == InitOrbit /\ [][NextOrbit]_vars

-----------------------------------------------------------------------------
(* Selecting: presses, short and long pointer travels and releases by mouse *)
(* and by touch, the host's clear, filter changes, resizes and loads.       *)

InitSelect == InitWith(OrbitFiles, {<<768, 1024>>}, {<<>>})

NextSelect ==
    \/ \E i \in FileIds : InSkew(i) /\ LoadSuccess(i)
    \/ \E t \in SceneTerms : SetSearchTerm(t)
    \/ \E vp \in SceneViewports : Resize(vp)
    \/ CloseDetailPanel
    \/ \E p \in {<<0, 0>>} : MouseDown(p)
    \/ \E p \in ClickPointers : MouseMove(p)
    \/ \E ray \in Rays : MouseUp(ray)
    \/ \E p \in {<<0, 0>>} : TouchStart(p)
    \/ \E p \in ClickPointers : TouchMove(p)
    \/ \E ray \in Rays : TouchEnd(ray)

SpecSelect == InitSelect /\ [][NextSelect]_vars

-----------------------------------------------------------------------------
(* Frames: the render loop between loads, wheel scrolls, clicks and the      *)
(* host's clear.                                                            *)

InitFrame == InitWith(OrbitFiles, {<<768, 1024>>}, {<<>>})

NextFrame ==
    \/ \E i \in FileIds : InSkew(i) /\ LoadSuccess(i)
    \/ CloseDetailPanel
    \/ \E p \in {<<0, 0>>} : MouseDown(p)
    \/ \E ray \in Rays : MouseUp(ray)
    \/ \E d \in WheelDeltas : Wheel(d)
    \/ \E ray \in Rays : Animate(ray)

SpecFrame == InitFrame /\ [][NextFrame]_vars

-----------------------------------------------------------------------------
(* Swiping and dragging over the grid in Resting mode: presses, vertical    *)
(* moves and releases over the background, by touch and by mouse, and loads. *)

\* a press position, one 40 px above it and one 40 px below it
SwipePointers == {<<0, 0>>, <<0, -40>>, <<0, 40>>}

InitSwipe == InitWith(SceneFiles, {<<768, 1024>>}, {<<>>})

NextSwipe ==
    \/ \E i \in FileIds : InSkew(i) /\ LoadSuccess(i)
    \/ \E p \in {<<0, 0>>} : MouseDown(p)
    \/ \E p \in SwipePointers : MouseMove(p)
    \/ \E ray \in {{}} : MouseUp(ray)
    \/ \E p \in {<<0, 0>>} : TouchStart(p)
    \/ \E p \in SwipePointers : TouchMove(p)
    \/ \E ray \in {{}} : TouchEnd(ray)

SpecSwipe == InitSwipe /\ [][NextSwipe]_vars

-----------------------------------------------------------------------------
(* Filtering: filter changes between loads, clicks and frames whose pointer  *)
(* ray may pass through any of the spheres, stale ones included.            *)

InitFilter == InitWith(OrbitFiles, {<<768, 1024>>}, {<<>>})

NextFilter ==
    \/ \E i \in FileIds : InSkew(i) /\ LoadSuccess(i)
    \/ \E t \in SceneTerms : SetSearchTerm(t)
    \/ \E p \in {<<0, 0>>} : MouseDown(p)
    \/ \E ray \in Rays : MouseUp(ray)
    \/ \E ray \in Rays : Animate(ray)

SpecFilter == InitFilter /\ [][NextFilter]_vars

-----------------------------------------------------------------------------
(* Loading: the loads of a five-file list complete or fail, in any order     *)
(* within the skew, under a filter and a viewport fixed at mount.           *)

LoadFiles == <<Name_cube, Name_redbox, Name_Bolt, Name_gear, Name_hook>>

InitLoad == InitWith(LoadFiles, GridViewports, GridTerms)

NextLoad ==
    \/ \E i \in FileIds : InSkew(i) /\ LoadSuccess(i)
    \/ \E i \in FileIds : InSkew(i) /\ LoadFailure(i)

SpecLoad == InitLoad /\ [][NextLoad]_vars

-----------------------------------------------------------------------------
(* Failing loads: loads that complete or fail in any order within the skew,  *)
(* between wheel scrolls and clicks that select and clear.                  *)

InitFailure == InitWith(SceneFiles, {<<768, 1024>>}, {<<>>})

NextFailure ==
    \/ \E i \in FileIds : InSkew(i) /\ LoadSuccess(i)
    \/ \E i \in FileIds : InSkew(i) /\ LoadFailure(i)
    \/ \E p \in {<<0, 0>>} : MouseDown(p)
    \/ \E ray \in Rays : MouseUp(ray)
    \/ \E d \in WheelDeltas : Wheel(d)

SpecFailure == InitFailure /\ [][NextFailure]_vars

-----------------------------------------------------------------------------
(* Tearing down: the host replaces the file list, by an empty one or by      *)
(* another list, between loads, clicks and frames; the loads of the session  *)
(* that was torn down complete afterwards.                                  *)

\* the file lists the host passes after the first
TeardownFileLists == {<<>>, <<Name_Bolt>>}

InitTeardown == InitWith(OrbitFiles, {<<768, 1024>>}, {<<>>})

NextTeardown ==
    \/ \E i \in FileIds : InSkew(i) /\ LoadSuccess(i)
    \/ \E fl \in TeardownFileLists : \E ray \in {{}} : SetFiles(fl, ray)
    \/ \E k \in 0..(session - 1) :
         \E i \in DOMAIN stale[k + 1].loadStatus : StaleLoadSuccess(k, i)
    \/ \E k \in 0..(session - 1) :
         \E i \in DOMAIN stale[k + 1].loadStatus : StaleLoadFailure(k, i)
    \/ files # <<>> /\ \E p \in {<<0, 0>>} : MouseDown(p)
    \/ files # <<>> /\ \E ray \in Rays : MouseUp(ray)
    \/ \E ray \in Rays : Animate(ray)

SpecTeardown == InitTeardown /\ [][NextTeardown]_vars

-----------------------------------------------------------------------------
(* Drawing: frames between loads, filter changes, resizes and clicks that    *)
(* select and clear.                                                        *)

\* the container is mounted narrow and resized to this size
DrawViewports == {<<1300, 800>>}

InitDraw == InitWith(OrbitFiles, {<<768, 1024>>}, {<<>>})

\* (the pointer of the frames is over the background)
NextDraw ==
    \/ \E i \in FileIds : InSkew(i) /\ LoadSuccess(i)
    \/ \E t \in SceneTerms : SetSearchTerm(t)
    \/ \E vp \in DrawViewports : Resize(vp)
    \/ \E p \in {<<0, 0>>} : MouseDown(p)
    \/ \E ray \in Rays : MouseUp(ray)
    \/ \E ray \in {{}} : Animate(ray)

SpecDraw == InitDraw /\ [][NextDraw]_vars

-----------------------------------------------------------------------------
(* Hovering: frames whose pointer ray may pass through any of the spheres,   *)
(* between loads, clicks and touch gestures that tap or drag sideways.       *)

\* a press position and one 8 px to its right
HoverPointers == {<<0, 0>>, <<8, 0>>}

InitHover == InitWith(OrbitFiles, {<<768, 1024>>}, {<<>>})

NextHover ==
    \/ \E i \in FileIds : InSkew(i) /\ LoadSuccess(i)
    \/ \E p \in {<<0, 0>>} : MouseDown(p)
    \/ \E ray \in Rays : MouseUp(ray)
    \/ \E p \in {<<0, 0>>} : TouchStart(p)
    \/ \E p \in HoverPointers : TouchMove(p)
    \/ \E ray \in Rays : TouchEnd(ray)
    \/ \E ray \in Rays : Animate(ray)

SpecHover == InitHover /\ [][NextHover]_vars

-----------------------------------------------------------------------------
(* Degenerate viewports: resizes to sizes of zero width or height and back,   *)
(* between loads and clicks that select and clear. While the container has   *)
(* no area nothing else reaches the scene.                                   *)

AnyViewports ==
    {<<0, 0>>, <<0, 800>>, <<768, 0>>, <<1300, 0>>, <<768, 1024>>, <<1300, 800>>}

HasArea == viewport[1] > 0 /\ viewport[2] > 0

InitViewport == InitWith(OrbitFiles, {<<768, 1024>>}, {<<>>})

NextViewport ==
    \/ HasArea /\ \E i \in FileIds : InSkew(i) /\ LoadSuccess(i)
    \/ HasArea /\ \E p \in {<<0, 0>>} : MouseDown(p)
    \/ HasArea /\ \E ray \in Rays : MouseUp(ray)
    \/ \E vp \in AnyViewports : ResizeAny(vp)

SpecViewport == InitViewport /\ [][NextViewport]_vars

-----------------------------------------------------------------------------
(* Geometries of any extent: each load delivers a geometry whose bounding    *)
(* box is a point or has some extent, or fails; clicks select and clear.     *)

\* the largest dimension of a bounding box: none, or some
MaxDims == {0, 40}

InitGeometry == InitWith(SceneFiles, {<<768, 1024>>}, {<<>>})

NextGeometry ==
    \/ \E i \in FileIds, maxDim \in MaxDims : InSkew(i) /\ LoadGeometry(i, maxDim)
    \/ \E i \in FileIds : InSkew(i) /\ LoadFailure(i)
    \/ \E p \in {<<0, 0>>} : MouseDown(p)
    \/ \E ray \in Rays : MouseUp(ray)

SpecGeometry == InitGeometry /\ [][NextGeometry]_vars

-----------------------------------------------------------------------------
(* Search texts and file names over letters and characters with a meaning in *)
(* regular expressions: one file, its load, and the host's search texts. A   *)
(* step that throws leaves the component as it is.                           *)

MaxQueryLen == 2

QueryChars == {"a", "b", "B", ".", "(", "*", "?", "\\"}

QueryStrings == UNION {[1..k -> QueryChars] : k \in 1..MaxQueryLen}

InitQuery ==
    \E name \in QueryStrings : InitWith(<<name>>, {<<768, 1024>>}, {<<>>})

NextQuery ==
    \/ outThrown = <<>> /\ \E i \in FileIds : LoadSuccess(i)
    \/ outThrown = <<>> /\ \E term \in QueryStrings \cup {<<>>} : SetQuery(term)

SpecQuery == InitQuery /\ [][NextQuery]_vars

-----------------------------------------------------------------------------
(* Writers of the positions: one file, its load, and every kind of input     *)
(* (mouse, touch, wheel) between frames that hover, select and clear.        *)

WriterFiles == <<Name_cube>>
WriterPointers == {<<0, 0>>, <<8, 0>>}
WriterDeltas == {1500}

InitWriters == InitWith(WriterFiles, {<<768, 1024>>}, {<<>>})

NextWriters ==
    \/ \E i \in FileIds : InSkew(i) /\ LoadSuccess(i)
    \/ \E p \in {<<0, 0>>} : MouseDown(p)
    \/ \E p \in WriterPointers : MouseMove(p)
    \/ \E ray \in Rays : MouseUp(ray)
    \/ \E p \in {<<0, 0>>} : TouchStart(p)
    \/ \E p \in WriterPointers : TouchMove(p)
    \/ \E ray \in Rays : TouchEnd(ray)
    \/ \E d \in WriterDeltas : Wheel(d)
    \/ \E ray \in Rays : Animate(ray)

SpecWriters == InitWriters /\ [][NextWriters]_vars

-----------------------------------------------------------------------------
(* Scroll inputs of several sizes: wheel events and touch moves that stay    *)
(* within the scroll range and ones that overshoot it, between loads and     *)
(* filter changes that change the range.                                     *)

SumDeltas == {100, -100, 1500, -1500}
SumPointers == {<<0, 0>>, <<0, -40>>, <<0, 400>>}

InitSum == InitWith(SceneFiles, {<<768, 1024>>}, {<<>>})

NextSum ==
    \/ \E i \in FileIds : InSkew(i) /\ LoadSuccess(i)
    \/ \E t \in SceneTerms : SetSearchTerm(t)
    \/ \E p \in {<<0, 0>>} : TouchStart(p)
    \/ \E p \in SumPointers : TouchMove(p)
    \/ \E ray \in {{}} : TouchEnd(ray)
    \/ \E d \in SumDeltas : Wheel(d)

SpecSum == InitSum /\ [][NextSum]_vars

-----------------------------------------------------------------------------
(* The pan shift: one file, its load, clicks that select and clear, and      *)
(* panel-size changes and resizes across the 768 px border, between frames.  *)

PanFiles == <<Name_cube>>

InitPan == InitWith(PanFiles, {<<768, 1024>>}, {<<>>})

NextPan ==
    \/ \E i \in FileIds : InSkew(i) /\ LoadSuccess(i)
    \/ \E size \in PanelSizes : SetPanelSize(size)
    \/ \E vp \in SceneViewports : Resize(vp)
    \/ \E p \in {<<0, 0>>} : MouseDown(p)
    \/ \E ray \in Rays : MouseUp(ray)
    \/ \E ray \in {{}} : Animate(ray)

SpecPan == InitPan /\ [][NextPan]_vars

-----------------------------------------------------------------------------
(* The camera: one file, its load, clicks that select and clear, filter      *)
(* changes, a resize and wheel scrolls, between frames.                      *)

CameraFiles == <<Name_redbox>>

InitCamera == InitWith(CameraFiles, {<<768, 1024>>}, {<<>>})

NextCamera ==
    \/ \E i \in FileIds : InSkew(i) /\ LoadSuccess(i)
    \/ \E t \in SceneTerms : SetSearchTerm(t)
    \/ \E vp \in DrawViewports : Resize(vp)
    \/ \E p \in {<<0, 0>>} : MouseDown(p)
    \/ \E ray \in Rays : MouseUp(ray)
    \/ \E d \in WheelDeltas : Wheel(d)
    \/ \E ray \in {{}} : Animate(ray)

SpecCamera == InitCamera /\ [][NextCamera]_vars

-----------------------------------------------------------------------------
(* Writers of the scroll offset: one file, its load, filter changes and      *)
(* resizes, wheel events, and touches that swipe, orbit, select and clear.   *)

OffsetFiles == <<Name_cube>>
OffsetPointers == {<<0, 0>>, <<0, -40>>}

InitOffset == InitWith(OffsetFiles, {<<768, 1024>>}, {<<>>})

NextOffset ==
    \/ \E i \in FileIds : InSkew(i) /\ LoadSuccess(i)
    \/ \E t \in SceneTerms : SetSearchTerm(t)
    \/ \E vp \in SceneViewports : Resize(vp)
    \/ \E p \in {<<0, 0>>} : TouchStart(p)
    \/ \E p \in OffsetPointers : TouchMove(p)
    \/ \E ray \in Rays : TouchEnd(ray)
    \/ \E d \in WheelDeltas : Wheel(d)

SpecOffset == InitOffset /\ [][NextOffset]_vars

-----------------------------------------------------------------------------
(* Gestures: one file, its load, and presses, moves within and beyond the    *)
(* 5 px threshold and releases, by mouse and by one finger.                  *)

GestureFiles == <<Name_cube>>

InitGesture == InitWith(GestureFiles, {<<768, 1024>>}, {<<>>})

NextGesture ==
    \/ \E i \in FileIds : InSkew(i) /\ LoadSuccess(i)
    \/ \E p \in {<<0, 0>>} : PressMouse(p)
    \/ \E p \in ClickPointers : MouseMove(p)
    \/ \E ray \in Rays : MouseUp(ray)
    \/ \E p \in {<<0, 0>>} : PressTouch(p)
    \/ \E p \in ClickPointers : TouchMove(p)
    \/ \E ray \in Rays : TouchEnd(ray)

SpecGesture == InitGesture /\ [][NextGesture]_vars

-----------------------------------------------------------------------------
(* Claims about the grid layout (checked under SpecGrid) *)

\* the last step ended with (or left in place) a run of performLayout
LayoutRan == lastOp = "layout"

\* the number of loaded objects of smaller identity whose name matches the filter
RankOf(id) ==
    Cardinality({j \in DOMAIN mesh : j < id /\ IsMatch(searchTerm, files[j + 1])})

\* C1: after performLayout has run with c columns, c in {2, 4, 6}, the loaded
\* objects whose name matches the filter have, in ascending identity order, the
\* contiguous ranks 0, 1, 2, ...; the object of rank k is at row k div c, column
\* k mod c (x = -(c-1)*650/2 + col*650, y = gridYOffset - row*650, z = 0); an
\* object that does not match has no rank, leaves no gap and is not visible.
C1_RowMajorLayout ==
    LayoutRan =>
      /\ gridCols \in {2, 4, 6}
      /\ \A id \in DOMAIN mesh :
           LET matches == IsMatch(searchTerm, files[id + 1])
               k == RankOf(id)
               row == k \div gridCols
               col == k % gridCols
           IN /\ mesh[id].matchesSearch = matches
              /\ matches =>
                   /\ mesh[id].position =
                        <<col * 650 - ((gridCols - 1) * 650) \div 2,
                          gridYOffset - row * 650, 0>>
                   /\ mesh[id].visible
              /\ ~matches => ~mesh[id].visible

\* the filter "o" leaves objects 1, 2 and 8 of the nine; with two columns the
\* object 8 has rank 2 and sits in row 1, column 0
C1_Witness ==
    /\ LayoutRan
    /\ searchTerm = Term_o
    /\ gridCols = 2
    /\ {0, 1, 2, 3, 8} \subseteq DOMAIN mesh
    /\ loadStatus[4] = "failed"
    /\ mesh[8].position = <<-325, gridYOffset - 650, 0>>
    /\ ~mesh[3].visible

\* C2: performLayout is idempotent: run again on the state a run left, with the
\* same filter, column count and vertical origin, it changes no position, no
\* match flag, no visibility, not the registry order and not visibleRows.
C2_LayoutIdempotent ==
    LayoutRan =>
      PerformLayout(loadedModels, boundingSpheres, mesh, searchTerm, gridCols,
                    gridYOffset)
        = [loadedModels |-> loadedModels, boundingSpheres |-> boundingSpheres,
           mesh |-> mesh, visibleRows |-> visibleRows]

\* a layout has run over several objects, some of them filtered out
C2_Witness ==
    /\ LayoutRan
    /\ searchTerm = Term_o
    /\ Len(loadedModels) >= 4
    /\ visibleRows >= 2
    /\ \E id \in DOMAIN mesh : ~mesh[id].matchesSearch

\* C3: after initialisation and after every resize the column count is 6 for a
\* width > 1200, 4 for 768 < width <= 1200 and 2 otherwise; so with nine loaded
\* objects, no filter and width 1300 the object of identity 6 is at row 1,
\* column 0.
C3_ColumnSteps ==
    /\ gridCols = (IF viewport[1] > 1200 THEN 6
                   ELSE IF viewport[1] > 768 THEN 4 ELSE 2)
    /\ (/\ DOMAIN mesh = 0..8
        /\ searchTerm = <<>>
        /\ viewport[1] = 1300)
       => mesh[6].position = <<-1625, gridYOffset - 650, 0>>

\* the nine-object scenario, reached by a resize to width 1300
C3_Witness ==
    /\ LayoutRan
    /\ viewport[1] = 1300
    /\ DOMAIN mesh = 0..8
    /\ searchTerm = <<>>
    /\ mesh[6].position[2] = gridYOffset - 650

-----------------------------------------------------------------------------
(* Claims about scrolling and orbiting (C4 under SpecScroll, C5 and C8 under *)
(* SpecOrbit)                                                              *)

\* C4: in every reachable state 0 <= scrollOffset <= maxScroll, where maxScroll
\* = max(0, visibleRows * 650 - gridYOffset) is computed from the current
\* visibleRows and vertical origin, whatever wheel and touch scrolls, filter
\* changes, resizes and load completions came before.
C4_ScrollWithinBounds ==
    /\ 0 <= scrollOffset
    /\ scrollOffset <= Max(0, visibleRows * 650 - gridYOffset)

\* C5: in every reachable state the orbit polar angle phi lies between 0.1 and
\* pi - 0.1 radians (100 and 3042 milliradians), whatever mouse drags, touch
\* drags, selections and clearings came before.
C5_PhiClamped ==
    /\ 100 <= orbit.phi
    /\ orbit.phi <= 3042

\* a drag while Orbiting has pushed phi against the lower end of the range, with
\* the pointer further from where it was than the range is wide
C5_Witness ==
    /\ isZoomed
    /\ isDragging
    /\ orbit.phi = 100

\* C8: while the scene is Orbiting no input changes the scroll offset: it is
\* still the offset of the moment the object was selected, and it still is in
\* the state the clearing step (which reports onSelect(null)) leaves.
C8_NoScrollWhileOrbiting ==
    (isZoomed \/ outSelect = <<NoModel>>) => scrollOffset = selectScroll

\* Orbiting over a scrolled grid, after a drag has turned the orbit
C8_Witness ==
    /\ isZoomed
    /\ scrollOffset > 0
    /\ orbit.phi # ZoomInAngles.phi

-----------------------------------------------------------------------------
(* Claims about selecting (checked under SpecSelect) *)

\* C6: in every reachable state the scene is Orbiting (isZoomed) if and only if
\* the selected-object reference is non-null; the reference names one loaded
\* object, and a step that reports the selection of an object leaves exactly
\* that object selected. "Orbiting with no selection" is never reached.
C6_ModeAgreesWithSelection ==
    /\ isZoomed <=> zoomedModel # NoModel
    /\ zoomedModel # NoModel => zoomedModel \in DOMAIN mesh
    /\ \A k \in DOMAIN outSelect :
         outSelect[k] # NoModel => zoomedModel = outSelect[k]

\* the selection was cleared by the host and another object was selected, and
\* the filter has changed since
C6_Witness ==
    /\ isZoomed
    /\ zoomedModel = 0
    /\ searchTerm = Term_box
    /\ lastOp = "layout"
    /\ orbit.theta # ZoomInAngles.theta

\* C9: a press and release without movement calls handleSingleClick once; in
\* Resting mode, with a ray that hits a matching object, it enters Orbiting with
\* that object selected and reports onSelect(object); in Orbiting mode it
\* leaves Orbiting, clears the selection and reports onSelect(null).
C9_ClickTogglesSelection ==
    (lastOp = "release" /\ travel = "none") =>
      /\ Len(outClick) = 1
      /\ LET c == outClick[1]
         IN /\ (~c.wasZoomed /\ c.hit # NoModel) =>
                 /\ IsMatch(searchTerm, files[c.hit + 1])
                 /\ isZoomed
                 /\ zoomedModel = c.hit
                 /\ outSelect = <<c.hit>>
                 /\ hostSelected = c.hit
            /\ c.wasZoomed =>
                 /\ ~isZoomed
                 /\ zoomedModel = NoModel
                 /\ outSelect = <<NoModel>>
                 /\ hostSelected = NoModel

\* the second click: a press and release without movement has just cleared the
\* selection an earlier one made
C9_Witness ==
    /\ lastOp = "release"
    /\ travel = "none"
    /\ outClick # <<>>
    /\ outClick[1].wasZoomed
    /\ outSelect = <<NoModel>>
    /\ orbit.phi = ZoomInAngles.phi

\* C10: a gesture in which the pointer went more than 5 px from its press
\* position before the release never triggers a selection change: if the
\* release calls handleSingleClick at all, the call finds Resting mode and no
\* object under the ray, and no onSelect is reported.
C10_DragNeverSelects ==
    (lastOp = "release" /\ travel = "far") =>
      /\ \A k \in DOMAIN outClick :
           ~outClick[k].wasZoomed /\ outClick[k].hit = NoModel
      /\ outSelect = <<>>

-----------------------------------------------------------------------------
(* Claims about the frame (checked under SpecFrame) *)

\* C7: once a frame has run in Resting mode the camera's target position is
\* (0, -scrollOffset, homeZ) and its target look-at (0, -scrollOffset, 0); and
\* in the frames that follow the clearing of a selection that was made at a
\* scroll offset s # 0 (by a click or by the host) these are (0, -s, homeZ) and
\* (0, -s, 0): the camera goes back to the scroll position, not to offset 0.
C7_ClearReturnsToScroll ==
    (lastOp = "frame" /\ ~isZoomed) =>
      /\ targetCamPos = <<0, -scrollOffset, homeZ>>
      /\ targetLookAt = <<0, -scrollOffset, 0>>
      /\ selectScroll # 0 =>
           /\ targetCamPos = <<0, -selectScroll, homeZ>>
           /\ targetLookAt = <<0, -selectScroll, 0>>

\* the first frame after the host cleared a selection made at offset 384
C7_Witness ==
    /\ lastOp = "frame"
    /\ ~isZoomed
    /\ selectScroll = 384
    /\ hostSelected = NoModel
    /\ targetCamPos = <<0, -384, homeZ>>
    /\ currentLookAt[2] < 0

-----------------------------------------------------------------------------
(* Claims about swiping and dragging (checked under SpecSwipe) *)

\* C11: while the pointer is pressed in Resting mode a vertical move of the
\* pointer changes the scroll offset: a touch swipe of dy pixels adds -dy * 4
\* (clamped to the scroll range), and a mouse drag with a vertical delta, made
\* where the offset has room on both sides, changes the offset as well.
C11_DragScrolls ==
    [][\A p \in SwipePointers :
         LET maxScroll == MaxScroll(visibleRows, gridYOffset)
         IN /\ (TouchMove(p) /\ isMouseDown /\ ~isZoomed) =>
                 scrollOffset' = ClampScroll(scrollOffset
                                   - (p[2] - touchStart[2]) * TouchScrollSensitivity,
                                   maxScroll)
            /\ (MouseMove(p) /\ isMouseDown /\ ~isZoomed /\ p[2] # dragStart[2]
                  /\ 0 < scrollOffset /\ scrollOffset < maxScroll) =>
                 scrollOffset' # scrollOffset]_vars

-----------------------------------------------------------------------------
(* Claims about filtering and hit-testing (checked under SpecFilter) *)

\* the object is loaded, flagged as matching, and its name matches the filter
Matches(id) ==
    /\ id \in DOMAIN mesh
    /\ mesh[id].matchesSearch
    /\ IsMatch(searchTerm, files[id + 1])

\* C12: hit-testing never returns an object that fails the filter: the object a
\* click's hit-test returned and the object a click selected match the current
\* filter, and so does, after a frame, the object the frame's hit-test made the
\* hovered one and reported through onHover.
C12_HitsMatchFilter ==
    /\ \A k \in DOMAIN outClick :
         outClick[k].hit # NoModel => Matches(outClick[k].hit)
    /\ \A k \in DOMAIN outSelect :
         outSelect[k] # NoModel => Matches(outSelect[k])
    /\ lastOp = "frame" =>
         /\ hoveredModel # NoModel => Matches(hoveredModel)
         /\ \A k \in DOMAIN outHover :
              outHover[k].model # NoModel => Matches(outHover[k].model)

\* a frame has made object 1 the hovered one with a ray through its sphere's
\* centre, which is also the centre of the stale sphere of the filtered-out
\* object 0, earlier in the hit-test list
C12_Witness ==
    /\ lastOp = "frame"
    /\ hoveredModel = 1
    /\ searchTerm = Term_box
    /\ 0 \in DOMAIN mesh
    /\ ~mesh[0].matchesSearch
    /\ \E i, j \in DOMAIN boundingSpheres :
         /\ i < j
         /\ boundingSpheres[i].model = 0
         /\ boundingSpheres[j].model = 1
         /\ boundingSpheres[i].center = boundingSpheres[j].center


\* the hit-test list as it would be had the loads completed in list order: the
\* sphere of each object of the (sorted) registry, in the registry's order
SpheresInListOrder ==
    [k \in DOMAIN loadedModels |->
       boundingSpheres[CHOOSE j \in DOMAIN boundingSpheres :
                         boundingSpheres[j].model = loadedModels[k]]]

\* C13: the object hit-testing returns does not depend on the order in which
\* the loads completed: for every pointer ray, through two matching spheres
\* included, it is the object hit-testing returns when the same objects, in
\* the same layout, were loaded in list order.
C13_HitIndependentOfLoadOrder ==
    \A ray \in Rays :
      HitTest(St, ray) = HitTest([St EXCEPT !.boundingSpheres = SpheresInListOrder],
                                 ray)

-----------------------------------------------------------------------------
(* Claims about loading (checked under SpecLoad) *)

\* every load has completed, by success or by failure
AllCompleted == \A i \in FileIds : loadStatus[i] # "pending"

\* the state after the loads of files 0 .. n-1 have completed in list order,
\* each with the outcome it has had, from the state s
RECURSIVE LoadInListOrder(_, _)
LoadInListOrder(s, n) ==
    IF n = 0 THEN s
    ELSE LET r == LoadInListOrder(s, n - 1)
         IN IF loadStatus[n - 1] = "loaded" THEN OnLoad(r, n - 1)
            ELSE IF loadStatus[n - 1] = "failed" THEN OnLoadError(r, n - 1)
            ELSE r

\* C14: once every load has completed, the objects, the position, match flag
\* and visibility of each and the row count are those the same loads, with the
\* same outcomes, leave when they complete in list order: the layout does not
\* depend on the order of the completions.
C14_LayoutIndependentOfLoadOrder ==
    AllCompleted =>
      LET listed == LoadInListOrder(Mount(files, viewport, searchTerm), Len(files))
      IN /\ DOMAIN mesh = DOMAIN listed.mesh
         /\ \A id \in DOMAIN mesh :
              /\ mesh[id].position = listed.mesh[id].position
              /\ mesh[id].matchesSearch = listed.mesh[id].matchesSearch
              /\ mesh[id].visible = listed.mesh[id].visible
         /\ loadedModels = listed.loadedModels
         /\ visibleRows = listed.visibleRows

\* every load has completed, the last file's before the one before it, one load
\* has failed, and the filter hides some of the objects
C14_Witness ==
    /\ AllCompleted
    /\ searchTerm = Term_o
    /\ loadStatus[1] = "failed"
    /\ Len(boundingSpheres) = 4
    /\ boundingSpheres[3].model = 4
    /\ boundingSpheres[4].model = 3
    /\ mesh[4].position = GridPos(1, gridCols, gridYOffset)


\* C15: every load completion, successful or failed, fires exactly one
\* onProgress(n, total) with total the number of files and n the number of
\* loads completed so far; so n grows by 1 with each completion, never exceeds
\* total and equals total once every load has completed.
C15_ProgressCountsCompletions ==
    LET completed == Cardinality({i \in FileIds : loadStatus[i] # "pending"})
    IN /\ loadedCount = completed
       /\ loadedCount <= Len(files)
       /\ lastOp # "init" => outProgress = << <<completed, Len(files)>> >>
       /\ AllCompleted => loadedCount = Len(files)

\* the last completion is a failure, after an earlier failure and successes
C15_Witness ==
    /\ AllCompleted
    /\ lastOp = "input"
    /\ outProgress = << <<5, 5>> >>
    /\ loadStatus[0] = "failed"
    /\ Len(loadedModels) = 3

-----------------------------------------------------------------------------
(* Claims about failing loads (checked under SpecFailure) *)

\* C16: a failed load is isolated. The step in which the load of file i fails
\* adds nothing to the registry and the hit-test list, leaves every object
\* (its position included), the row count, the selection, the mode and the
\* scroll offset as they are and every other load as it is, reports no
\* selection, and is counted by one onProgress; and a load that succeeds,
\* whatever loads have failed before it, puts its object in the registry and
\* in the hit-test list.
C16_FailedLoadIsolated ==
    [][\A i \in FileIds :
         /\ (loadStatus[i] = "pending" /\ loadStatus'[i] = "failed") =>
              /\ loadedModels' = loadedModels
              /\ boundingSpheres' = boundingSpheres
              /\ mesh' = mesh
              /\ visibleRows' = visibleRows
              /\ isZoomed' = isZoomed
              /\ zoomedModel' = zoomedModel
              /\ hostSelected' = hostSelected
              /\ scrollOffset' = scrollOffset
              /\ outSelect' = <<>>
              /\ loadedCount' = loadedCount + 1
              /\ outProgress' = << <<loadedCount + 1, Len(files)>> >>
              /\ \A j \in FileIds \ {i} : loadStatus'[j] = loadStatus[j]
         /\ (loadStatus[i] = "pending" /\ loadStatus'[i] = "loaded") =>
              /\ i \in DOMAIN mesh'
              /\ \E k \in DOMAIN loadedModels' : loadedModels'[k] = i
              /\ \E k \in DOMAIN boundingSpheres' : boundingSpheres'[k].model = i
              /\ boundingSpheres'[Len(boundingSpheres')].center = mesh'[i].position
      ]_vars

\* the load of file 0 has just failed while object 1 is selected over a
\* scrolled grid, and the load of file 2 is still to complete
C16_Witness ==
    /\ lastOp = "input"
    /\ outProgress = << <<2, 3>> >>
    /\ loadStatus[0] = "failed"
    /\ loadStatus[2] = "pending"
    /\ isZoomed
    /\ zoomedModel = 1
    /\ scrollOffset > 0

-----------------------------------------------------------------------------
(* Claims about tearing the scene down (checked under SpecTeardown) *)

\* C17: the completion, by success or by failure, of a load of a session that
\* has been torn down is a no-op: it leaves the registry, the hit-test list,
\* the objects and the row count as they are (no layout) and fires no
\* onProgress.
C17_StaleCompletionIsNoOp ==
    [][(\E k \in 0..(session - 1) :
          \E i \in DOMAIN stale[k + 1].loadStatus :
            /\ stale[k + 1].loadStatus[i] = "pending"
            /\ stale'[k + 1].loadStatus[i] # "pending")
       => /\ loadedModels' = loadedModels
          /\ boundingSpheres' = boundingSpheres
          /\ mesh' = mesh
          /\ visibleRows' = visibleRows
          /\ outProgress' = <<>>]_vars

\* C18: tearing the scene down stops the frame loop: no frame callback of a
\* torn-down session is pending, whatever frame was pending when the cleanup
\* ran, so no frame of a torn-down session is ever run; at most one callback,
\* of the current session and its scene, is pending.
C18_TeardownStopsFrames ==
    /\ \A f \in pendingFrames : f.session = session /\ files # <<>>
    /\ Cardinality(pendingFrames) <= 1

\* the scene was torn down with the callback of its third frame pending, and
\* nothing is pending since
C18_Witness ==
    /\ lastOp = "files"
    /\ session = 1
    /\ files = <<>>
    /\ animationFrame = 3
    /\ pendingFrames = {}

\* C19: the registry and the hit-test list hold objects of the current scene
\* session only, so does the hovered and the selected reference, and the step
\* that changes the file list leaves the scene Resting with no selection.
C19_ObjectsOfCurrentSessionOnly ==
    /\ \A k \in DOMAIN loadedModels : SessionOf(loadedModels[k]) = session
    /\ \A k \in DOMAIN boundingSpheres :
         SessionOf(boundingSpheres[k].model) = session
    /\ hoveredModel # NoModel => SessionOf(hoveredModel) = session
    /\ zoomedModel # NoModel => SessionOf(zoomedModel) = session
    /\ lastOp = "files" => ~isZoomed /\ zoomedModel = NoModel


-----------------------------------------------------------------------------
(* Claims about what a frame draws (checked under SpecFilter) *)

\* C20: at every draw (the end of a frame) every object whose matchesSearch
\* flag is false is invisible, in Resting and in Orbiting mode, the selected
\* object included.
C20_FilteredOutInvisible ==
    lastOp = "frame" =>
      \A id \in DOMAIN mesh : ~mesh[id].matchesSearch => ~mesh[id].visible


-----------------------------------------------------------------------------
(* Claims about what a frame draws and keeps (checked under SpecDraw) *)

\* C21: at every draw performed while Orbiting (the end of a frame) the
\* selected object is visible, has opacity 1 and is not transparent, whatever
\* filter changes, resizes and load completions came since it was selected.
C21_SelectedDrawnOpaque ==
    (lastOp = "frame" /\ isZoomed /\ zoomedModel # NoModel) =>
      /\ mesh[zoomedModel].visible
      /\ mesh[zoomedModel].opacity = Opaque
      /\ ~mesh[zoomedModel].transparent

\* a frame has drawn the selected object 0 after the filter came to exclude it,
\* the container was resized and the other load completed
C21_Witness ==
    /\ lastOp = "frame"
    /\ isZoomed
    /\ zoomedModel = 0
    /\ searchTerm = Term_box
    /\ viewport = <<1300, 800>>
    /\ Len(loadedModels) = 2
    /\ mesh[0].visible


-----------------------------------------------------------------------------
(* Claims about hovering (checked under SpecHover) *)

\* C22: every frame reports exactly one hover value. In a frame run while
\* Orbiting or while the drag flag is set the value is null and so is the
\* hovered reference; a non-null value is reported only in Resting mode with
\* the drag flag clear, and it names the object the frame made the hovered
\* one, which is a matching object of the hit-test list.
C22_OneHoverPerFrame ==
    lastOp = "frame" =>
      /\ Len(outHover) = 1
      /\ (isZoomed \/ isDragging) =>
           /\ outHover[1] = NoHover
           /\ hoveredModel = NoModel
      /\ outHover[1] # NoHover =>
           /\ ~isZoomed
           /\ ~isDragging
           /\ outHover[1].model # NoModel
           /\ hoveredModel = outHover[1].model
           /\ outHover[1].name = files[hoveredModel + 1]
           /\ mesh[hoveredModel].matchesSearch
           /\ \E j \in DOMAIN boundingSpheres :
                boundingSpheres[j].model = hoveredModel

\* a frame has run in Resting mode during a touch drag, after an earlier frame
\* had made an object the hovered one: it reports null
C22_Witness ==
    /\ lastOp = "frame"
    /\ ~isZoomed
    /\ isDragging
    /\ touches = 1
    /\ outHover = <<NoHover>>
    /\ glow.opacity > 0
    /\ Len(boundingSpheres) = 2


-----------------------------------------------------------------------------
(* Claims about the selection notifications (checked under SpecSelect) *)

\* C23: onSelect notifications correspond one-to-one to mode changes: a step
\* that enters Orbiting reports exactly onSelect(object), with the object it
\* selected; a step that leaves Orbiting, by a click or by the host's clear,
\* reports exactly onSelect(null); a step that keeps the mode reports no
\* onSelect. So the notifications alternate object, null, object, null, ...
C23_SelectNotifiesModeChanges ==
    [][/\ (~isZoomed /\ isZoomed') =>
            outSelect' = <<zoomedModel'>> /\ zoomedModel' # NoModel
       /\ (isZoomed /\ ~isZoomed') => outSelect' = <<NoModel>>
       /\ (isZoomed' = isZoomed) => outSelect' = <<>>]_vars

\* the host has cleared, with one onSelect(null), the selection a click made
\* after an earlier one was cleared by a click
C23_Witness ==
    /\ lastOp = "input"
    /\ outSelect = <<NoModel>>
    /\ outClick = <<>>
    /\ ~isZoomed
    /\ hostSelected = NoModel
    /\ searchTerm = Term_box


-----------------------------------------------------------------------------
(* Claims about degenerate viewports (checked under SpecViewport) *)

\* C24: whatever the size of the container, of zero width or height included,
\* the aspect ratio, the home distance, the vertical origin and the pan shift
\* that the view computations leave are finite numbers (no division by zero).
C24_ViewNumbersFinite ==
    /\ viewKinds.aspect = "finite"
    /\ viewKinds.homeZ = "finite"
    /\ viewKinds.gridYOffset = "finite"
    /\ viewKinds.panShift = "finite"


-----------------------------------------------------------------------------
(* Claims about degenerate geometries (checked under SpecGeometry) *)

\* C25: every object of the registry has a finite display scale, whatever the
\* bounding box of its geometry: a geometry whose bounding box is a point
\* gets a finite fallback scale or is not added to the registry.
C25_ScaleFinite ==
    \A i \in 1..Len(loadedModels) : mesh[loadedModels[i]].scale = "finite"


-----------------------------------------------------------------------------
(* Claims about the filter on any text (checked under SpecQuery) *)

\* the two texts are equal up to letter case
SameFolded(a, b) ==
    /\ Len(a) = Len(b)
    /\ \A k \in 1..Len(a) : Lower(a[k]) = Lower(b[k])

RECURSIVE OrderedSubsequence(_, _, _, _)
\* the characters of q from the i-th on occur, in order and up to letter case,
\* in n from the j-th position on
OrderedSubsequence(q, i, n, j) ==
    IF i > Len(q) THEN TRUE
    ELSE IF j > Len(n) THEN FALSE
    ELSE IF Lower(q[i]) = Lower(n[j]) THEN OrderedSubsequence(q, i + 1, n, j + 1)
    ELSE OrderedSubsequence(q, i, n, j + 1)

\* C26: with the empty search text every loaded object matches, and with a
\* search text equal, up to letter case, to an object's full name the layout
\* runs without an exception and that object matches, whatever characters the
\* name contains.
C26_FullNameMatches ==
    \A i \in 1..Len(loadedModels) :
        LET m == mesh[loadedModels[i]]
        IN /\ searchTerm = <<>> => m.matchesSearch
           /\ SameFolded(searchTerm, m.fileName) =>
                 outThrown = <<>> /\ m.matchesSearch

\* C27: with a search text that is not empty, compiling the filter throws
\* nothing and a loaded object matches exactly when the text is, up to letter
\* case, an ordered subsequence of its name (a special character stands for
\* itself).
C27_MatchIffSubsequence ==
    \A i \in 1..Len(loadedModels) :
        LET m == mesh[loadedModels[i]]
        IN searchTerm # <<>> =>
              /\ outThrown = <<>>
              /\ m.matchesSearch <=> OrderedSubsequence(searchTerm, 1, m.fileName, 1)


-----------------------------------------------------------------------------
(* Claims about the layout between frames (checked under SpecDraw) *)

\* every loaded object carries the filter's verdict on the current search text
\* and, when it matches, stands at the row-major position of its rank among
\* the matching objects, for the current column count and vertical origin
LayoutCurrent ==
    \A id \in DOMAIN mesh :
        LET matches == FuzzyTest(searchTerm, mesh[id].fileName)
            k == Cardinality({j \in DOMAIN mesh :
                                 /\ mesh[j].index < mesh[id].index
                                 /\ FuzzyTest(searchTerm, mesh[j].fileName)})
        IN /\ mesh[id].matchesSearch = matches
           /\ matches =>
                mesh[id].position =
                   <<(k % gridCols) * SPACING - ((gridCols - 1) * SPACING) \div 2,
                     gridYOffset - (k \div gridCols) * SPACING, 0>>

\* C28: the layout is up to date when a frame runs: in the state a frame
\* starts from, every loaded object's match flag is the filter's verdict on
\* the current search text and every matching object is at its row-major
\* position for the current registry, column count and vertical origin,
\* whatever loads, filter changes and resizes came before.
C28_LayoutCurrentAtFrame == [][lastOp' = "frame" => LayoutCurrent]_vars

\* a frame ran after a resize to six columns and the filter "box": redbox, the
\* only match, is in row 0, column 0
C28_Witness ==
    /\ lastOp = "frame"
    /\ frames >= 1
    /\ searchTerm = Term_box
    /\ viewport = <<1300, 800>>
    /\ gridCols = 6
    /\ Len(loadedModels) = 2
    /\ ~mesh[0].matchesSearch
    /\ mesh[1].position = <<-1625, gridYOffset, 0>>


-----------------------------------------------------------------------------
(* Claims about the writers of the positions (checked under SpecWriters) *)

\* C29: the position of an object has one writer, the layout: a frame, a
\* mouse, touch or wheel handler, a selection and a hover update leave every
\* object where it was; a step that places or moves an object is a layout run.
C29_PositionsSingleWriter ==
    [][/\ lastOp' \in {"frame", "input", "release"} =>
            /\ DOMAIN mesh' = DOMAIN mesh
            /\ \A id \in DOMAIN mesh : mesh'[id].position = mesh[id].position
       /\ (\E id \in DOMAIN mesh' :
              id \notin DOMAIN mesh \/ mesh'[id].position # mesh[id].position)
            => lastOp' = "layout"]_vars

\* frames ran, the object was placed and then selected by a click, and it is
\* still in row 0, column 0 of the two columns
C29_Witness ==
    /\ lastOp = "release"
    /\ frames >= 2
    /\ isZoomed
    /\ zoomedModel = 0
    /\ outSelect = <<0>>
    /\ mesh[0].position = <<-325, gridYOffset, 0>>


-----------------------------------------------------------------------------
(* Claims about the scroll inputs (checked under SpecSum) *)

\* C30: in Resting mode a wheel event with deltaY d sets the scroll offset to
\* min(max(scrollOffset + 0.8 * d, 0), maxScroll) and a touch move with the
\* vertical delta dy sets it to min(max(scrollOffset - 4 * dy, 0), maxScroll),
\* with maxScroll = max(0, visibleRows * 650 - gridYOffset) taken when the
\* event arrives: a sum beyond the range lands on 0 or on maxScroll.
C30_ScrollIsClampedSum ==
    [][LET maxScroll == IF visibleRows * 650 - gridYOffset > 0
                        THEN visibleRows * 650 - gridYOffset ELSE 0
           Clamped(sum) == IF sum < 0 THEN 0
                           ELSE IF sum > maxScroll THEN maxScroll ELSE sum
       IN /\ \A d \in SumDeltas :
               (Wheel(d) /\ ~isZoomed) =>
                  scrollOffset' = Clamped(scrollOffset + (8 * d) \div 10)
          /\ \A p \in SumPointers :
               (TouchMove(p) /\ touches = 1 /\ ~isZoomed) =>
                  scrollOffset' = Clamped(scrollOffset - 4 * (p[2] - touchStart[2]))]_vars

\* a move up of a finger has left the offset on the maxScroll of the two rows,
\* which no sum of the inputs' steps equals
C30_Witness ==
    /\ lastOp = "input"
    /\ ~isZoomed
    /\ touches = 1
    /\ isDragging
    /\ touchStart = <<0, -40>>
    /\ visibleRows = 2
    /\ scrollOffset = 2 * 650 - gridYOffset
    /\ scrollOffset > 0


-----------------------------------------------------------------------------
(* Claims about the drag flag (checked under SpecSelect) *)

\* C31: during a press, by mouse or by touch, in Resting or in Orbiting mode,
\* the gesture is flagged as dragging exactly when the pointer has gone more
\* than 5 px in x or in y from the press position at some move since the
\* press; and a release is a click exactly when it never did.
C31_DraggingIffThresholdCrossed ==
    /\ isMouseDown => (isDragging <=> travel = "far")
    /\ (lastOp = "release" /\ travel # "idle") =>
          (outClick # <<>> <=> travel # "far")


-----------------------------------------------------------------------------
(* Claims about clicks while Orbiting (checked under SpecSelect) *)

\* C32: a release that is treated as a click while Orbiting clears the
\* selection and returns to Resting, whatever the pointer ray hits: nothing,
\* the selected object or another one; the selection never goes from one
\* object to another in one step.
C32_OrbitingClickClears ==
    [][/\ (isZoomed /\ lastOp' = "release" /\ outClick' # <<>>) =>
            /\ ~isZoomed'
            /\ zoomedModel' = NoModel
            /\ outSelect' = <<NoModel>>
       /\ (zoomedModel # NoModel /\ zoomedModel' # NoModel) =>
            zoomedModel' = zoomedModel]_vars

\* a click whose ray went through an object's sphere has cleared the selection
C32_Witness ==
    /\ lastOp = "release"
    /\ Len(outClick) = 1
    /\ outClick[1].wasZoomed
    /\ outClick[1].hit # NoModel
    /\ ~isZoomed
    /\ zoomedModel = NoModel
    /\ outSelect = <<NoModel>>


-----------------------------------------------------------------------------
(* Claims about the pan shift (checked under SpecPan) *)

\* C33: the pan shift is never stale while Orbiting: in the state a frame
\* starts from in Orbiting mode, the pan shift is the one computed from the
\* current panel size and the current width and height of the viewport, a
\* horizontal shift when the width exceeds 768 px and a vertical one
\* otherwise, whatever panel-size changes and resizes came before.
C33_PanShiftCurrentAtFrame ==
    [][(lastOp' = "frame" /\ isZoomed) =>
          /\ panShift = UpdateZoomTargets(viewport[1], viewport[2], panelSize)
          /\ viewport[1] > 768 => panShift[1] > 0 /\ panShift[2] = 0
          /\ viewport[1] <= 768 => panShift[1] = 0 /\ panShift[2] < 0]_vars

\* a frame ran in Orbiting mode after the panel was set to 300 px and the
\* viewport to 1300 x 800: the shift is horizontal
C33_Witness ==
    /\ lastOp = "frame"
    /\ isZoomed
    /\ zoomedModel = 0
    /\ panelSize = 300
    /\ viewport = <<1300, 800>>
    /\ panShift = UpdateZoomTargets(1300, 800, 300)
    /\ panShift[1] > 0


-----------------------------------------------------------------------------
(* Claims about the grid's return (checked under SpecDraw) *)

\* C34: after the selection is cleared the grid reappears: a frame in Resting
\* mode, the first after leaving Orbiting included, leaves every loaded
\* object that matches the filter visible, and its opacity moves toward 1: it
\* never decreases, and it increases while it is below 1.
C34_GridReappears ==
    [][(lastOp' = "frame" /\ ~isZoomed) =>
          \A id \in DOMAIN mesh :
              mesh[id].matchesSearch =>
                 /\ mesh'[id].visible
                 /\ mesh'[id].opacity >= mesh[id].opacity
                 /\ mesh[id].opacity < Opaque =>
                       mesh'[id].opacity > mesh[id].opacity]_vars

\* the first frame after the selection of object 0 was cleared: object 1,
\* hidden by the selection, is visible again and on its way to opaque
C34_Witness ==
    /\ lastOp = "frame"
    /\ ~isZoomed
    /\ Len(loadedModels) = 2
    /\ mesh[0].opacity = Opaque
    /\ mesh[1].matchesSearch
    /\ mesh[1].visible
    /\ mesh[1].opacity = 50
    /\ mesh[1].transparent


-----------------------------------------------------------------------------
(* Claims about the camera's motion (checked under SpecCamera) *)

-----------------------------------------------------------------------------
(* Claims about what is drawn while Orbiting (checked under SpecDraw) *)

\* C36: at every draw made while Orbiting the selected object is the only
\* visible object: after a frame in Orbiting mode every other loaded object
\* is invisible, also when its load completed while Orbiting and after
\* resizes and filter changes made while Orbiting.
C36_OnlySelectedDrawn ==
    (lastOp = "frame" /\ isZoomed /\ zoomedModel # NoModel) =>
       \A id \in DOMAIN mesh : id # zoomedModel => ~mesh[id].visible


-----------------------------------------------------------------------------
(* Claims about the writers of the scroll offset (checked under SpecOffset) *)

\* C37: a filter change, a resize and a load completion leave the scroll
\* offset as it is, whatever they do to visibleRows and the vertical origin;
\* a step that writes it is a wheel event or a touch move (an input that
\* leaves the number of fingers unchanged) made in Resting mode.
C37_ScrollWriters ==
    [][/\ lastOp' = "layout" => scrollOffset' = scrollOffset
       /\ scrollOffset' # scrollOffset =>
            /\ ~isZoomed
            /\ lastOp' = "input"
            /\ touches' = touches]_vars

\* a filter change has emptied the grid and left the scroll offset, now
\* beyond maxScroll, where a scroll had put it
C37_Witness ==
    /\ lastOp = "layout"
    /\ searchTerm = Term_box
    /\ visibleRows = 0
    /\ scrollOffset > 0


-----------------------------------------------------------------------------
(* Claims about gestures that end as clicks (checked under SpecGesture) *)

\* C38: a gesture that ends as a click has no drag side effects: when a
\* release, of the mouse button or of the finger, is treated as a click, the
\* scroll offset and the orbit angles it finds are those the press found.
C38_ClickHasNoDragEffects ==
    [][(lastOp' = "release" /\ outClick' # <<>>) =>
          /\ scrollOffset = atPress.scrollOffset
          /\ orbit = atPress.orbit]_vars


-----------------------------------------------------------------------------
(* Claims about releases without a press (checked under SpecSelect) *)

\* C39: a release of the mouse button that no press in the container came
\* before, since the release before it, tests no ray against the objects
\* and changes neither the selection nor the mode.
C39_ReleaseWithoutPressIsInert ==
    [][(lastOp' = "release" /\ touches = 0 /\ ~isMouseDown) =>
          /\ outClick' = <<>>
          /\ outSelect' = <<>>
          /\ isZoomed' = isZoomed
          /\ zoomedModel' = zoomedModel
          /\ hostSelected' = hostSelected]_vars

\* the button was released, with no press before, while object 0 was
\* selected: it still is
C39_Witness ==
    /\ lastOp = "release"
    /\ travel = "idle"
    /\ touches = 0
    /\ outClick = <<>>
    /\ isZoomed
    /\ zoomedModel = 0
    /\ hostSelected = 0

=============================================================================
